---- MODULE Spec2Model ----
(***************************************************************************)
(* VabGenRx: the cache store (services/cache_service.py over the tables of *)
(* database/drug_database.py), the dosing service and the three-agent      *)
(* orchestrator (services/vabgenrx_agent.py) as state machines.            *)
(*                                                                         *)
(* Strings that the code inspects character by character (drug and disease *)
(* names: lower(), sorted()) are sequences of code points.  Timestamps are *)
(* whole days, the unit DATEDIFF(day, ...) counts in.                      *)
(***************************************************************************)
EXTENDS Integers, Sequences, FiniteSets, TLC

\* ------------------------------------------------------------------ bounds
\* Last day the clock reaches.
MaxDay == 60
\* Cap of access_count, which the code increments without bound.
MaxAccess == 2

\* ------------------------------------------------------- program constants
\* CACHE_TTL_DAYS = int(os.getenv("CACHE_TTL_DAYS", 30))
CACHE_TTL_DAYS == 30

VARIABLES
    interaction_cache,  \* table interaction_cache: a set of rows
    disease_cache,      \* table disease_cache
    food_cache,         \* table food_cache
    now,                \* GETDATE(), in days
    available,          \* AzureSQLCacheService.available
    last_merge,         \* the last MERGE that ran: its table, parameters, branch, time
    cache_call,         \* the last call of the cache store, as its caller saw it
    thread_local,       \* _thread_local.connection, per thread
    handles,            \* the connections pyodbc.connect has created so far
    conn_call,          \* the last call of get_connection, as its caller saw it
    store_threads,      \* per thread: its save_drug_drug in flight, statement by statement
    drug_counseling_cache, \* table drug_counseling_cache
    counseling_call,    \* the last call of DrugCounselingService.get_drug_counseling
    analysis_log,       \* table analysis_log: its rows in insertion order
    item_steps,         \* the last item processed: the calls made for it, in order
    merge_call,         \* the last collector-derived array built, with its inputs
    tool_call,          \* the last collector-writing tool call, with what it returned
    agent_run,          \* per agent name: its _run statement by statement, and its remote agent
    analyze_response,   \* what POST /analyze last returned to its caller
    dosing_calls,       \* calls of DosingService.get_dosing_recommendation so far
    fda_label_fetches,  \* calls of FDAService.get_dosing_label so far
    llm_calls,          \* chat completions requested by DosingService._call_llm so far
    dosing_response,    \* "dosing_recommendations" of the last /dosing response
    batch_results,      \* the last get_..._for_all_drugs call: its scope and results
    dosing_results,             \* collector _dosing_results
    drug_counseling_results,    \* collector _drug_counseling_results
    condition_counseling_results, \* collector _condition_counseling_results
    pc,                 \* where VabGenRxOrchestrator.analyze stands
    run_state,          \* per agent: how far its _BaseAgent._run has come
    run_value,          \* per agent: what its _run returned
    collected,          \* the Phase 1 futures whose result() analyze has taken
    pending_exception,  \* an exception is leaving the executor's with block
    safety_result,      \* local of analyze
    disease_result,     \* local of analyze
    counseling_result,  \* local of analyze
    final               \* the "analysis" of the value analyze returned

\* The connections under the cache store.
connVars == <<thread_local, handles, conn_call, store_threads>>

\* The cache store: its tables and the service object.
storeVars ==
    <<interaction_cache, disease_cache, food_cache, now, available, last_merge,
      cache_call>>

\* The counseling service's own cache table.
counselingVars == <<drug_counseling_cache, counseling_call>>

\* The session log, and the response of the request that wrote to it.
logVars == <<analysis_log, analyze_response>>

\* The processing of one item of a scope.
itemVars == <<item_steps>>

\* One collector-derived array of the merge.
mergeVars == <<merge_call>>

\* The collector-writing tools as their caller sees them, and the remote
\* agents of _run.
toolVars == <<tool_call, agent_run>>

cacheVars ==
    <<storeVars, connVars, counselingVars, logVars, itemVars, mergeVars, toolVars>>

dosingVars ==
    <<dosing_calls, fda_label_fetches, llm_calls, dosing_response, batch_results>>

collectorVars ==
    <<dosing_results, drug_counseling_results, condition_counseling_results>>

orchVars ==
    <<pc, run_state, run_value, collected, pending_exception,
      safety_result, disease_result, counseling_result, final>>

\* What no statement of the cache store touches.
nonCacheVars ==
    <<counselingVars, logVars, itemVars, mergeVars, toolVars, dosingVars,
      collectorVars, orchVars>>

vars == <<cacheVars, dosingVars, collectorVars, orchVars>>

\* ------------------------------------------------------------------ strings
\* "b", "B", "ab": two spellings of one name, and a name that sorts before
\* it although it is longer.
NameB   == <<98>>
NameBUp == <<66>>
NameAB  == <<97, 98>>
DrugNames == {NameB, NameBUp, NameAB}

\* The pairs a caller asks about: two different entries of a medication list,
\* in either order.
DrugPairs == {p \in DrugNames \X DrugNames : p[1] # p[2]}

\* The drugs of the food checks: one name in two spellings.
FoodDrugNames == {NameB, NameBUp}

\* "x", "X": a condition in two spellings.
NameX   == <<120>>
NameXUp == <<88>>
DiseaseNames == {NameX, NameXUp}

\* str.lower() on one code point (ASCII letters).
LowerChar(c) == IF c >= 65 /\ c <= 90 THEN c + 32 ELSE c

\* str.lower()
Lower(s) == [i \in DOMAIN s |-> LowerChar(s[i])]

\* s < t for Python strings: code point by code point, a proper prefix first.
RECURSIVE StrLess(_, _)
StrLess(s, t) ==
    IF t = <<>> THEN FALSE
    ELSE IF s = <<>> THEN TRUE
    ELSE IF Head(s) # Head(t) THEN Head(s) < Head(t)
    ELSE StrLess(Tail(s), Tail(t))

\* sorted([x, y]) of two strings (stable: equal elements keep their order).
Sorted2(x, y) == IF StrLess(y, x) THEN <<y, x>> ELSE <<x, y>>

\* ------------------------------------------------------------------ payloads
\* The result documents a caller stores: dicts with a 'severity' entry.
Payloads == {[severity |-> "severe"], [severity |-> "minor"]}

\* A lookup's miss (Python None).
None == [none |-> TRUE]

\* json.dumps(result): the document as text, here its key/value tokens.
JsonDumps(result) == <<"{", "severity", result.severity, "}">>

\* json.loads(text)
JsonLoads(text) == [severity |-> text[3]]

\* No MERGE has run yet.
NoMerge ==
    [table |-> "none", branch |-> "none", args |-> <<>>, result |-> None, at |-> 0]

\* The MERGE of a save: WHEN MATCHED (update) or WHEN NOT MATCHED (insert).
MergeRecord(table, matched, args, result) ==
    [table |-> table, branch |-> IF matched THEN "update" ELSE "insert",
     args |-> args, result |-> result, at |-> now]

\* DATEDIFF(day, start, end): day boundaries crossed from start to end.
DateDiffDay(start, end) == end - start

\* ------------------------------------------------------------- the clock
\* The time that passes between two operations: one day short of the TTL,
\* the TTL, one day more.
ClockSteps == {CACHE_TTL_DAYS - 1, CACHE_TTL_DAYS, CACHE_TTL_DAYS + 1}

AdvanceClock(d) ==
    /\ now + d <= MaxDay
    /\ now' = now + d
    /\ UNCHANGED <<interaction_cache, disease_cache, food_cache, available, last_merge,
                 cache_call, connVars, nonCacheVars>>

\* ------------------------------------------------------------ db_connection
\* The threads that call get_connection, and how many connections
\* pyodbc.connect creates in one run of the model.
NThreads == 2

MaxHandles == 3

Threads == 1..NThreads

\* A connection object: the i-th one pyodbc.connect returned.
Handle(i) == [id |-> i]

\* _thread_local = local(): an attribute set on it is seen by the setting
\* thread only, so each thread has a slot of its own.
SharedSlot(t) == 1

SlotOf(t) == t

\* getattr(_thread_local, 'connection', None)
SlotValue(t) == thread_local[SlotOf(t)]

\* conn.cursor().execute("SELECT 1") runs iff the connection is still up.
ProbeAlwaysFails(conn) == FALSE

ProbeOk(conn) == handles[conn.id].alive

\* except Exception: _thread_local.connection = None
KeepDeadHandle(conn) == conn

SlotAfterFailedProbe(conn) == None

\* No connection in any slot, none created; no call yet, by no thread (0).
NoConnCall ==
    [thread |-> 0, probe_failed |-> FALSE, dropped |-> None,
     raised |-> FALSE, returned |-> None, created |-> FALSE,
     slot_after |-> None]

\* A thread that has not called save_drug_drug.
NoStore ==
    [pc |-> "idle", key |-> <<>>, result |-> None, conn |-> None,
     matched |-> FALSE, raised |-> FALSE, error |-> "none"]

ConnIdle ==
    /\ thread_local = [t \in Threads |-> None]
    /\ handles = <<>>
    /\ conn_call = NoConnCall
    /\ store_threads = [t \in Threads |-> NoStore]

\* pyodbc.connect(_conn_str, timeout=10) by thread t when it succeeds.
NewHandle(t) == [alive |-> TRUE, created_by |-> t, returned_to |-> {t}]

\* get_connection() on thread t; connect_ok is whether pyodbc.connect
\* succeeds should the call get there. The value is what the call does: the
\* slots and connections after it, and what the caller sees.
GetConnection(t, connect_ok) ==
    LET conn == SlotValue(t)
        probed == conn # None
        probe_failed == probed /\ ~ProbeOk(conn)
        slot_reset ==
            IF probe_failed
            THEN [thread_local EXCEPT ![SlotOf(t)] = SlotAfterFailedProbe(conn)]
            ELSE thread_local
        new == Handle(Len(handles) + 1)
    IN  IF probed /\ ~probe_failed
        THEN [slots |-> thread_local,
              conns |-> [handles EXCEPT ![conn.id].returned_to = @ \cup {t}],
              call |-> [thread |-> t, probe_failed |-> FALSE, dropped |-> None,
                        raised |-> FALSE, returned |-> conn, created |-> FALSE,
                        slot_after |-> conn]]
        ELSE IF connect_ok
        THEN [slots |-> [slot_reset EXCEPT ![SlotOf(t)] = new],
              conns |-> Append(handles, NewHandle(t)),
              call |-> [thread |-> t, probe_failed |-> probe_failed,
                        dropped |-> IF probe_failed THEN conn ELSE None,
                        raised |-> FALSE, returned |-> new, created |-> TRUE,
                        slot_after |-> new]]
        ELSE [slots |-> slot_reset,
              conns |-> handles,
              call |-> [thread |-> t, probe_failed |-> probe_failed,
                        dropped |-> IF probe_failed THEN conn ELSE None,
                        raised |-> TRUE, returned |-> None, created |-> FALSE,
                        slot_after |-> slot_reset[SlotOf(t)]]]

get_connection(t, connect_ok) ==
    LET r == GetConnection(t, connect_ok) IN
    /\ Len(r.conns) <= MaxHandles
    /\ thread_local' = r.slots
    /\ handles' = r.conns
    /\ conn_call' = r.call
    /\ UNCHANGED <<store_threads, storeVars, nonCacheVars>>

\* The server or the network ends connection i.
connection_lost(i) ==
    /\ i \in DOMAIN handles
    /\ handles[i].alive
    /\ handles' = [handles EXCEPT ![i].alive = FALSE]
    /\ UNCHANGED <<thread_local, conn_call, store_threads, storeVars, nonCacheVars>>

\* ------------------------------------------------- AzureSQLCacheService
\* try: ... return value / except Exception as e: print(...); return None
ExceptReraises(ok, value) ==
    [raised |-> ~ok, returned |-> IF ok THEN value ELSE None]

ExceptReturnsNone(ok, value) ==
    [raised |-> FALSE, returned |-> IF ok THEN value ELSE None]

\* The callers' view of the cache store is not being recorded.
CallsNotRecorded ==
    [op |-> "unrecorded", key |-> <<>>, live |-> FALSE, available |-> FALSE,
     connected |-> FALSE, reachable |-> FALSE, failed |-> FALSE, raised |-> FALSE,
     returned |-> None]

\* Recorded, and no call of the cache store yet.
NoCacheCall ==
    [op |-> "none", key |-> <<>>, live |-> FALSE, available |-> FALSE,
     connected |-> FALSE, reachable |-> FALSE,
     failed |-> FALSE, raised |-> FALSE, returned |-> None]

\* One call of the cache store as its caller sees it. `if not self.available:
\* return` comes first; otherwise _conn() and the statements run inside the
\* try, and ok is false when one of them raises. connected is whether
\* _conn() was reached, reachable whether the backing store answers at the
\* time of the call, key the normalised key, live whether the table held a
\* live record for it.
CacheCall(op, key, live, ok, value) ==
    LET out == IF ~available THEN [raised |-> FALSE, returned |-> None]
               ELSE ExceptReturnsNone(ok, value) IN
    IF cache_call = CallsNotRecorded THEN cache_call
    ELSE [op |-> op, key |-> key, live |-> live, available |-> available,
          connected |-> available, reachable |-> ok,
          failed |-> available /\ ~ok,
          raised |-> out.raised, returned |-> out.returned]

\* __init__: available = _test_connection(); ok is whether SELECT 1 ran.
NewCacheService(ok) ==
    /\ available' = ok
    /\ UNCHANGED <<interaction_cache, disease_cache, food_cache, now, last_merge,
                 cache_call, connVars, nonCacheVars>>

\* The TTL condition of the three SELECTs:
\* DATEDIFF(day, cached_at, GETDATE()) < CACHE_TTL_DAYS.
IsLiveSwapped(cached_at) == DateDiffDay(now, cached_at) < CACHE_TTL_DAYS

IsLive(cached_at) == DateDiffDay(cached_at, now) < CACHE_TTL_DAYS

\* access_count = access_count + 1 on the rows an UPDATE names.
TouchAndRefresh(rows) ==
    {[r EXCEPT !.access_count = @ + 1, !.cached_at = now] : r \in rows}

Touch(rows) == {[r EXCEPT !.access_count = @ + 1] : r \in rows}

\* ---- drug-drug
\* d1, d2 = sorted([drug1.lower(), drug2.lower()])
DDKeyUnsorted(drug1, drug2) == <<Lower(drug1), Lower(drug2)>>

DDKey(drug1, drug2) == Sorted2(Lower(drug1), Lower(drug2))

\* WHERE drug1 = ? AND drug2 = ?
DDRows(k) == {r \in interaction_cache : r.drug1 = k[1] /\ r.drug2 = k[2]}

\* ... AND DATEDIFF(day, cached_at, GETDATE()) < ?
DDLive(k) == {r \in DDRows(k) : IsLive(r.cached_at)}

\* What get_drug_drug returns in the current state when no statement fails
\* (fetchone takes any row of the SELECT's).
get_drug_drug_returns(drug1, drug2) ==
    LET k == DDKey(drug1, drug2) IN
    IF ~available \/ DDLive(k) = {} THEN {None}
    ELSE {JsonLoads(r.full_result) : r \in DDLive(k)}

\* get_drug_drug; ok is false when a statement raises (caught: returns None).
get_drug_drug(drug1, drug2, ok) ==
    LET k == DDKey(drug1, drug2) IN
    /\ IF available /\ ok /\ DDLive(k) # {}
       THEN /\ \A r \in DDRows(k) : r.access_count < MaxAccess
            /\ interaction_cache' =
                   (interaction_cache \ DDRows(k)) \cup Touch(DDRows(k))
       ELSE UNCHANGED interaction_cache
    /\ \E v \in get_drug_drug_returns(drug1, drug2) :
           cache_call' = CacheCall("get_drug_drug", k, DDLive(k) # {}, ok, v)
    /\ UNCHANGED <<disease_cache, food_cache, now, available, last_merge,
                 connVars, nonCacheVars>>

\* The MERGE of save_drug_drug on interaction_cache.
MergeDDInsertOnly(k, result) ==
    interaction_cache \cup
        {[drug1 |-> k[1], drug2 |-> k[2],
          full_result |-> JsonDumps(result), severity |-> result.severity,
          cached_at |-> now, access_count |-> 1]}

\* The same MERGE preceded by a DELETE of the records past their TTL.
MergeDDPurging(k, result) ==
    {r \in interaction_cache \ DDRows(k) : IsLive(r.cached_at)} \cup
        {[drug1 |-> k[1], drug2 |-> k[2],
          full_result |-> JsonDumps(result), severity |-> result.severity,
          cached_at |-> now, access_count |-> 1]}

MergeDD(k, result) ==
    IF DDRows(k) # {}
    THEN (interaction_cache \ DDRows(k)) \cup
         {[r EXCEPT !.full_result = JsonDumps(result),
                    !.severity = result.severity,
                    !.cached_at = now] : r \in DDRows(k)}
    ELSE interaction_cache \cup
         {[drug1 |-> k[1], drug2 |-> k[2],
           full_result |-> JsonDumps(result), severity |-> result.severity,
           cached_at |-> now, access_count |-> 1]}

\* save_drug_drug; ok is false when a statement raises (caught, no commit).
save_drug_drug(drug1, drug2, result, ok) ==
    /\ interaction_cache' =
           IF available /\ ok
           THEN MergeDD(DDKey(drug1, drug2), result)
           ELSE interaction_cache
    /\ last_merge' =
           IF available /\ ok
           THEN MergeRecord("interaction_cache",
                            DDRows(DDKey(drug1, drug2)) # {},
                            <<drug1, drug2>>, result)
           ELSE last_merge
    /\ cache_call' = CacheCall("save_drug_drug", DDKey(drug1, drug2),
                            DDLive(DDKey(drug1, drug2)) # {}, ok, None)
    /\ UNCHANGED <<disease_cache, food_cache, now, available,
                 connVars, nonCacheVars>>

\* ---- drug-disease
\* The two identifiers lower-cased and put in canonical order.
DisKeySorted(drug, disease) == Sorted2(Lower(drug), Lower(disease))

\* d, dis = drug.lower(), disease.lower()
DisKey(drug, disease) == <<Lower(drug), Lower(disease)>>

DisRows(k) == {r \in disease_cache : r.drug = k[1] /\ r.disease = k[2]}

DisLive(k) == {r \in DisRows(k) : IsLive(r.cached_at)}

get_drug_disease_returns(drug, disease) ==
    LET k == DisKey(drug, disease) IN
    IF ~available \/ DisLive(k) = {} THEN {None}
    ELSE {JsonLoads(r.full_result) : r \in DisLive(k)}

get_drug_disease(drug, disease, ok) ==
    LET k == DisKey(drug, disease) IN
    /\ IF available /\ ok /\ DisLive(k) # {}
       THEN /\ \A r \in DisRows(k) : r.access_count < MaxAccess
            /\ disease_cache' = (disease_cache \ DisRows(k)) \cup Touch(DisRows(k))
       ELSE UNCHANGED disease_cache
    /\ \E v \in get_drug_disease_returns(drug, disease) :
           cache_call' = CacheCall("get_drug_disease", k, DisLive(k) # {}, ok, v)
    /\ UNCHANGED <<interaction_cache, food_cache, now, available, last_merge,
                 connVars, nonCacheVars>>

MergeDis(k, result) ==
    IF DisRows(k) # {}
    THEN (disease_cache \ DisRows(k)) \cup
         {[r EXCEPT !.full_result = JsonDumps(result),
                    !.severity = result.severity,
                    !.cached_at = now] : r \in DisRows(k)}
    ELSE disease_cache \cup
         {[drug |-> k[1], disease |-> k[2],
           full_result |-> JsonDumps(result), severity |-> result.severity,
           cached_at |-> now, access_count |-> 1]}

save_drug_disease(drug, disease, result, ok) ==
    /\ disease_cache' =
           IF available /\ ok
           THEN MergeDis(DisKey(drug, disease), result)
           ELSE disease_cache
    /\ last_merge' =
           IF available /\ ok
           THEN MergeRecord("disease_cache",
                            DisRows(DisKey(drug, disease)) # {},
                            <<drug, disease>>, result)
           ELSE last_merge
    /\ cache_call' = CacheCall("save_drug_disease", DisKey(drug, disease),
                            DisLive(DisKey(drug, disease)) # {}, ok, None)
    /\ UNCHANGED <<interaction_cache, food_cache, now, available,
                 connVars, nonCacheVars>>

\* ---- drug-food
\* d = drug.lower()
FoodKey(drug) == Lower(drug)

FoodRows(k) == {r \in food_cache : r.drug = k}

FoodLive(k) == {r \in FoodRows(k) : IsLive(r.cached_at)}

get_food_returns(drug) ==
    LET k == FoodKey(drug) IN
    IF ~available \/ FoodLive(k) = {} THEN {None}
    ELSE {JsonLoads(r.full_result) : r \in FoodLive(k)}

get_food(drug, ok) ==
    LET k == FoodKey(drug) IN
    /\ IF available /\ ok /\ FoodLive(k) # {}
       THEN /\ \A r \in FoodRows(k) : r.access_count < MaxAccess
            /\ food_cache' = (food_cache \ FoodRows(k)) \cup Touch(FoodRows(k))
       ELSE UNCHANGED food_cache
    /\ \E v \in get_food_returns(drug) :
           cache_call' = CacheCall("get_food", <<k>>, FoodLive(k) # {}, ok, v)
    /\ UNCHANGED <<interaction_cache, disease_cache, now, available, last_merge,
                 connVars, nonCacheVars>>

MergeFood(k, result) ==
    IF FoodRows(k) # {}
    THEN (food_cache \ FoodRows(k)) \cup
         {[r EXCEPT !.full_result = JsonDumps(result),
                    !.cached_at = now] : r \in FoodRows(k)}
    ELSE food_cache \cup
         {[drug |-> k, full_result |-> JsonDumps(result),
           cached_at |-> now, access_count |-> 1]}

save_food(drug, result, ok) ==
    /\ food_cache' =
           IF available /\ ok THEN MergeFood(FoodKey(drug), result)
           ELSE food_cache
    /\ last_merge' =
           IF available /\ ok
           THEN MergeRecord("food_cache", FoodRows(FoodKey(drug)) # {},
                            <<drug>>, result)
           ELSE last_merge
    /\ cache_call' = CacheCall("save_food", <<FoodKey(drug)>>,
                            FoodLive(FoodKey(drug)) # {}, ok, None)
    /\ UNCHANGED <<interaction_cache, disease_cache, now, available,
                 connVars, nonCacheVars>>

\* ---- the session log
\* No request has been answered yet.
NoResponse == [session_id |-> 0, level |-> "none", logged |-> FALSE]

\* The table as CREATE TABLE leaves it, before any request.
LogIdle == analysis_log = <<>> /\ analyze_response = NoResponse

\* risk = 'HIGH' if severe > 0 else 'MODERATE' if moderate > 0 else 'LOW'
LogRisk(results) ==
    LET ddi == results.drug_drug
        severe == Cardinality({i \in DOMAIN ddi : ddi[i].severity = "severe"})
        moderate == Cardinality({i \in DOMAIN ddi : ddi[i].severity = "moderate"})
    IN  IF severe > 0 THEN "HIGH" ELSE IF moderate > 0 THEN "MODERATE" ELSE "LOW"

\* log_analysis: one INSERT INTO analysis_log; nothing when the store is
\* unavailable; ok is false when a statement raises (caught, no commit).
log_analysis(session_id, meds, conds, results, ok) ==
    analysis_log' =
        IF available /\ ok
        THEN Append(analysis_log,
                    [session_id |-> session_id, medications |-> meds,
                     diseases |-> conds, risk_level |-> LogRisk(results),
                     analyzed_at |-> now])
        ELSE analysis_log

\* risk_level of POST /analyze:
\* "HIGH" if severe_count > 0 or contra_count > 0 else
\* "MODERATE" if moderate_count > 0 else "LOW"
AnalyzeRiskLevel(results) ==
    LET ddi == results.drug_drug
        dd == results.drug_disease
        severe_count == Cardinality({i \in DOMAIN ddi : ddi[i].severity = "severe"})
        moderate_count ==
            Cardinality({i \in DOMAIN ddi : ddi[i].severity = "moderate"})
        contra_count == Cardinality({i \in DOMAIN dd : dd[i].contraindicated})
    IN  IF severe_count > 0 \/ contra_count > 0 THEN "HIGH"
        ELSE IF moderate_count > 0 THEN "MODERATE" ELSE "LOW"

\* POST /analyze from the risk summary on: the level is computed, the
\* session is logged, and the response carries the level computed here.
analyze(session_id, meds, conds, results, ok) ==
    /\ log_analysis(session_id, meds, conds, results, ok)
    /\ analyze_response' = [session_id |-> session_id,
                            level |-> AnalyzeRiskLevel(results),
                            logged |-> available /\ ok]
    /\ UNCHANGED <<storeVars, connVars, counselingVars, itemVars, mergeVars, toolVars,
                   dosingVars, collectorVars, orchVars>>

\* ------------------------------------------------- DrugCounselingService
\* _get_age_group(age)
AgeGroups == {"adult", "elderly"}

\* The sex a request states: "F".
SexF == <<70>>

\* f"{drug.lower()}|{sex.lower()}|{age_group}"
CounselingCacheKey(drug, sex, age_group) == <<Lower(drug), Lower(sex), age_group>>

\* What _call_llm returns: the model's JSON, or the dict of its except branch.
CounselingLlmResults ==
    {[patient_summary |-> "take with food"],
     [patient_summary |-> "Unable to generate counseling"]}

\* What the chat completion of the counseling service does: it raises or
\* it answers.
CounselingLlmOutcomes ==
    {[raises |-> TRUE],
     [raises |-> FALSE, json |-> [patient_summary |-> "take with food"]]}

\* DrugCounselingService._call_llm: the parsed answer, or the fixed dict of
\* the except branch.
counseling_call_llm(llm) ==
    IF llm.raises THEN [patient_summary |-> "Unable to generate counseling"]
    ELSE llm.json

\* json.dumps(result) of a counseling result: its key/value tokens.
JsonDumpsCounseling(result) ==
    <<"{", "patient_summary", result.patient_summary,
      "from_cache", IF result.from_cache THEN "true" ELSE "false", "}">>

\* json.loads(row[0])
JsonLoadsCounseling(text) ==
    [patient_summary |-> text[3], from_cache |-> (text[5] = "true")]

CounselingRows(k) == {r \in drug_counseling_cache : r.cache_key = k}

\* The same SELECT with a TTL of a week.
CounselingLiveWeek(k) ==
    {r \in CounselingRows(k) : DateDiffDay(r.cached_at, now) < 7}

\* ... AND DATEDIFF(day, cached_at, GETDATE()) < 30
CounselingLive(k) ==
    {r \in CounselingRows(k) : DateDiffDay(r.cached_at, now) < 30}

\* A _save_cache that skips the dict of _call_llm's except branch.
MergeCounselingUnlessError(k, result) ==
    IF result.patient_summary = "Unable to generate counseling"
    THEN drug_counseling_cache
    ELSE IF CounselingRows(k) # {}
    THEN (drug_counseling_cache \ CounselingRows(k)) \cup
         {[r EXCEPT !.full_result = JsonDumpsCounseling(result),
                    !.cached_at = now] : r \in CounselingRows(k)}
    ELSE drug_counseling_cache \cup
         {[cache_key |-> k, full_result |-> JsonDumpsCounseling(result),
           cached_at |-> now, access_count |-> 1]}

\* The MERGE of _save_cache.
MergeCounseling(k, result) ==
    IF CounselingRows(k) # {}
    THEN (drug_counseling_cache \ CounselingRows(k)) \cup
         {[r EXCEPT !.full_result = JsonDumpsCounseling(result),
                    !.cached_at = now] : r \in CounselingRows(k)}
    ELSE drug_counseling_cache \cup
         {[cache_key |-> k, full_result |-> JsonDumpsCounseling(result),
           cached_at |-> now, access_count |-> 1]}

\* result['from_cache'] = False
FreshCounseling(llm_result) ==
    [patient_summary |-> llm_result.patient_summary, from_cache |-> FALSE]

NoCounselingCall ==
    [op |-> "none", key |-> <<>>, read_ok |-> FALSE, hit |-> FALSE,
     llm_called |-> FALSE, saved |-> FALSE, returned |-> None]

CounselingIdle ==
    /\ drug_counseling_cache = {}
    /\ counseling_call = NoCounselingCall

\* DrugCounselingService.get_drug_counseling: _get_cached (read_ok is false
\* when a statement of it raises: None), `if cached: return cached`, else
\* the model's result, marked, saved (save_ok is false when _save_cache's
\* statement raises) and returned.
CounselingServiceCall(drug, sex, age_group, llm_result, read_ok, save_ok) ==
    LET k == CounselingCacheKey(drug, sex, age_group)
        hit == read_ok /\ CounselingLive(k) # {}
        result == FreshCounseling(llm_result)
    IN  IF hit
        THEN /\ \A r \in CounselingRows(k) : r.access_count < MaxAccess
             /\ drug_counseling_cache' =
                    (drug_counseling_cache \ CounselingRows(k))
                        \cup Touch(CounselingRows(k))
             /\ \E r \in CounselingLive(k) :
                    counseling_call' =
                        [op |-> "get_drug_counseling", key |-> k,
                         read_ok |-> read_ok, hit |-> TRUE,
                         llm_called |-> FALSE, saved |-> FALSE,
                         returned |-> JsonLoadsCounseling(r.full_result)]
        ELSE /\ drug_counseling_cache' =
                    IF save_ok THEN MergeCounseling(k, result)
                    ELSE drug_counseling_cache
             /\ counseling_call' =
                    [op |-> "get_drug_counseling", key |-> k,
                     read_ok |-> read_ok, hit |-> FALSE,
                     llm_called |-> TRUE, saved |-> save_ok,
                     returned |-> result]

service_get_drug_counseling(drug, sex, age_group, llm_result, read_ok, save_ok) ==
    /\ CounselingServiceCall(drug, sex, age_group, llm_result, read_ok, save_ok)
    /\ UNCHANGED <<storeVars, connVars, logVars, itemVars, mergeVars, toolVars, dosingVars,
                   collectorVars, orchVars>>

\* No collector-writing tool called yet.
NoToolCall == [tool |-> "none", identifier |-> <<>>, origin |-> "none",
               returned |-> None]

\* The names _run is called with: the Safety, Disease and Counseling agents.
AgentNames == {"safety", "disease", "counseling"}

\* _run has not been called for a name: no remote agent, no call made.
NoRun ==
    [pc |-> "idle", created |-> 0, exists |-> FALSE, delete_calls |-> 0,
     pending |-> [raises |-> FALSE, value |-> "none"]]

ToolIdle ==
    /\ tool_call = NoToolCall
    /\ agent_run = [n \in AgentNames |-> NoRun]

\* No collector-derived array built yet.
NoMergeCall == [scope |-> <<>>, collector |-> <<>>, fallback |-> <<>>,
                array |-> <<>>, built |-> FALSE]

MergeIdle == merge_call = NoMergeCall

\* ---- one item of a scope, from its lookup to its end
\* No item processed yet.
NoItem == [path |-> "none", hit |-> FALSE, steps |-> <<>>]

ItemIdle == item_steps = NoItem

\* One call made for an item: what kind of collaborator it goes to.
Step(kind, call) == [kind |-> kind, call |-> call]

\* _check_drug_drug: `if cached:` ends the item; else the evidence, the
\* analyzer, the save.
CheckDrugDrugSteps(hit) ==
    <<Step("lookup", "cache.get_drug_drug")>> \o
    IF hit THEN <<>>
    ELSE <<Step("evidence", "pubmed.search_drug_interaction"),
           Step("evidence", "fda.search_adverse_events"),
           Step("evidence", "fda.get_drug_contraindications"),
           Step("evidence", "fda.get_drug_contraindications"),
           Step("inference", "analyzer.analyze_drug_drug_interaction"),
           Step("store", "cache.save_drug_drug")>>

\* The Safety agent's instructions for a drug pair, followed to the letter:
\* Step 1 check_cache; Steps 2 and 3 ALWAYS search_pubmed and
\* search_fda_events; Steps 4 and 5 if cache_hit=false synthesize, save_cache.
SafetyAgentPairSteps(hit) ==
    <<Step("lookup", "check_cache"),
      Step("evidence", "search_pubmed"),
      Step("evidence", "search_fda_events")>> \o
    IF hit THEN <<>>
    ELSE <<Step("inference", "synthesize"), Step("store", "save_cache")>>

\* DrugCounselingService.get_drug_counseling: `if cached: return cached`;
\* else the FDA label, the model, _save_cache.
DrugCounselingSteps(hit) ==
    <<Step("lookup", "_get_cached")>> \o
    IF hit THEN <<>>
    ELSE <<Step("evidence", "FDAService.get_drug_contraindications"),
           Step("inference", "_call_llm"),
           Step("store", "_save_cache")>>

\* A drug pair processed by `path`, which makes the calls hit_steps after a
\* hit and miss_steps after a miss: the
\* lookup is a hit when get_drug_drug returns a record (get_ok is false when
\* a statement of it raises), and the result a is saved after a miss
\* (save_ok is false when a statement of save_drug_drug raises).
DrugDrugItem(path, hit_steps, miss_steps, drug1, drug2, a, get_ok, save_ok) ==
    LET k == DDKey(drug1, drug2)
        hit == available /\ get_ok /\ DDLive(k) # {}
        saved == ~hit /\ available /\ save_ok
    IN  /\ hit => \A r \in DDRows(k) : r.access_count < MaxAccess
        /\ interaction_cache' =
               IF hit THEN (interaction_cache \ DDRows(k)) \cup Touch(DDRows(k))
               ELSE IF saved THEN MergeDD(k, a)
               ELSE interaction_cache
        /\ last_merge' =
               IF saved
               THEN MergeRecord("interaction_cache", DDRows(k) # {},
                                <<drug1, drug2>>, a)
               ELSE last_merge
        /\ item_steps' = [path |-> path, hit |-> hit,
                          steps |-> IF hit THEN hit_steps ELSE miss_steps]
        /\ UNCHANGED <<disease_cache, food_cache, now, available, cache_call,
                       connVars, counselingVars, logVars, mergeVars, toolVars, dosingVars,
                       collectorVars, orchVars>>

\* app.py _check_drug_drug(drug1, drug2)
check_drug_drug(drug1, drug2, a, get_ok, save_ok) ==
    DrugDrugItem("_check_drug_drug",
                 CheckDrugDrugSteps(TRUE), CheckDrugDrugSteps(FALSE),
                 drug1, drug2, a, get_ok, save_ok)

\* One drug pair of the Safety agent's scope.
safety_agent_pair(drug1, drug2, a, get_ok, save_ok) ==
    DrugDrugItem("VabGenRxSafetyAgent",
                 SafetyAgentPairSteps(TRUE), SafetyAgentPairSteps(FALSE),
                 drug1, drug2, a, get_ok, save_ok)

\* One drug of the counseling scope.
drug_counseling_item(drug, sex, age_group, llm_result, read_ok, save_ok) ==
    /\ CounselingServiceCall(drug, sex, age_group, llm_result, read_ok, save_ok)
    /\ item_steps' =
           [path |-> "get_drug_counseling",
            hit |-> read_ok /\
                    CounselingLive(CounselingCacheKey(drug, sex, age_group)) # {},
            steps |-> DrugCounselingSteps(
                read_ok /\
                CounselingLive(CounselingCacheKey(drug, sex, age_group)) # {})]
    /\ UNCHANGED <<storeVars, connVars, logVars, mergeVars, toolVars, dosingVars,
                   collectorVars, orchVars>>

\* ------------------------------------------------------------ dictionaries
\* A Python dict is a function on the set of its keys.
EmptyDict == <<>>

\* d.get(key, default)
Get(d, key, default) == IF key \in DOMAIN d THEN d[key] ELSE default

\* d[key] = value
SetKey(d, key, value) ==
    [k \in DOMAIN d \cup {key} |-> IF k = key THEN value ELSE d[k]]

\* ----------------------------------------------------------- dosing service
\* Cap of the three call counters, which grow without bound.
MaxDosingCalls == 2

\* The label sections _get_evidence_tier scores.
ScoredSections ==
    {"dosage_and_administration", "use_in_specific_populations",
     "clinical_pharmacology", "boxed_warning"}

\* What FDAService.get_dosing_label returns, as the set of sections that are
\* present: nothing found (or the request failed), a partial label, a full one.
FdaLabels ==
    {{}, {"dosage_and_administration", "clinical_pharmacology"}, ScoredSections}

\* DosingService._get_evidence_tier: the tier number.
get_evidence_tier(fda_label) ==
    LET score == Cardinality(fda_label \cap ScoredSections)
    IN  IF score >= 3 THEN 1
        ELSE IF score = 2 THEN 2
        ELSE IF score = 1 THEN 3
        ELSE 4

\* What the chat completion does: it raises, or it answers with a JSON object
\* of the model's making, which may or may not carry a from_cache key.
LlmRaises == [raises |-> TRUE]

LlmAnswers(drug) ==
    {[raises |-> FALSE, json |-> j] :
        j \in {[drug |-> drug, adjustment_required |-> a] : a \in BOOLEAN}
              \cup {[drug |-> drug, adjustment_required |-> a, from_cache |-> TRUE] :
                        a \in BOOLEAN}}

LlmOutcomes(drug) == {LlmRaises} \cup LlmAnswers(drug)

\* No batch call yet.
NoBatch ==
    [fn |-> "none", scope |-> <<>>, items |-> <<>>, results |-> <<>>,
     raised |-> FALSE, running |-> FALSE]

\* An exception in place of a value.
Raises(result) == "raised" \in DOMAIN result

\* DosingService._call_llm: the parsed answer, or the fixed dict of the except
\* branch.
call_llm_reraises(llm) == IF llm.raises THEN [raised |-> TRUE] ELSE llm.json

call_llm(llm) ==
    IF llm.raises
    THEN [drug |-> <<>>, adjustment_required |-> FALSE, error |-> "LLM error"]
    ELSE llm.json

\* The last three statements of DosingService.get_dosing_recommendation,
\* without the from_cache assignment.
DosingResultAsAnswered(llm_result, evidence_tier) ==
    SetKey(llm_result, "evidence_tier_info", evidence_tier)

\* The last three statements of DosingService.get_dosing_recommendation.
DosingResult(llm_result, evidence_tier) ==
    SetKey(SetKey(llm_result, "evidence_tier_info", evidence_tier),
           "from_cache", FALSE)

\* DosingService.get_dosing_recommendation: the value returned.
dosing_recommendation(drug, fda_label, llm) ==
    DosingResult(call_llm(llm), get_evidence_tier(fda_label))

\* DosingService.get_dosing_recommendation, n calls of it: each fetches the
\* label and asks the model once; no statement of it names the cache.
DosingServiceCalls(n) ==
    /\ dosing_calls + n <= MaxDosingCalls
    /\ dosing_calls' = dosing_calls + n
    /\ fda_label_fetches' = fda_label_fetches + n
    /\ llm_calls' = llm_calls + n
    /\ UNCHANGED <<cacheVars, orchVars>>

\* What the calls for a list of drugs meet, one after the other: the label
\* found and the model's doing.
DosingInputsOf(medications) ==
    {inputs \in [1..Len(medications) ->
                    FdaLabels \X UNION {LlmOutcomes(d) : d \in DrugNames}] :
        \A i \in 1..Len(medications) : inputs[i][2] \in LlmOutcomes(medications[i])}

\* POST /dosing (api/app.py): one service call per medication of the request,
\* the results in request order.
dosing_recommendations(medications, inputs) ==
    /\ DosingServiceCalls(Len(medications))
    /\ dosing_response' =
           [i \in 1..Len(medications) |->
               dosing_recommendation(medications[i], inputs[i][1], inputs[i][2])]
    /\ UNCHANGED <<batch_results, collectorVars>>

\* The agent tool get_dosing_recommendation: one service call, its result kept
\* in the collector under the lower-cased drug name.
get_dosing_recommendation(drug, fda_label, llm) ==
    /\ DosingServiceCalls(1)
    /\ dosing_results' =
           SetKey(dosing_results, Lower(drug),
                  dosing_recommendation(drug, fda_label, llm))
    /\ UNCHANGED <<dosing_response, batch_results, drug_counseling_results,
                   condition_counseling_results>>

\* ------------------------------------------------------- the batch methods
\* `for drug in medications: results.append(<one call>)`, `return results`:
\* an exception in one call leaves the loop and the method.
ForAll(results) ==
    IF \E i \in DOMAIN results : Raises(results[i])
    THEN [raised |-> TRUE, results |-> <<>>]
    ELSE [raised |-> FALSE, results |-> results]

\* DosingService.get_dosing_for_all_drugs: one get_dosing_recommendation per
\* medication, in list order (the service keeps no state between them).
get_dosing_for_all_drugs(medications, inputs) ==
    LET out == ForAll([i \in 1..Len(medications) |->
                          dosing_recommendation(medications[i], inputs[i][1],
                                                inputs[i][2])])
    IN  /\ ~batch_results.running
        /\ DosingServiceCalls(Len(medications))
        /\ batch_results' =
               [fn |-> "get_dosing_for_all_drugs", scope |-> medications,
                items |-> [i \in 1..Len(medications) |->
                              [hit |-> FALSE, failed |-> inputs[i][2].raises,
                               label_found |-> inputs[i][1] # {}]],
                results |-> out.results, raised |-> out.raised,
                running |-> FALSE]
        /\ UNCHANGED <<dosing_response, collectorVars>>

\* DrugCounselingService.get_counseling_for_all_drugs, up to its loop.
get_counseling_for_all_drugs(medications) ==
    /\ ~batch_results.running
    /\ batch_results' =
           [fn |-> "get_counseling_for_all_drugs", scope |-> medications,
            items |-> <<>>, results |-> <<>>, raised |-> FALSE,
            running |-> Len(medications) > 0]
    /\ UNCHANGED <<cacheVars, dosing_calls, fda_label_fetches, llm_calls,
                   dosing_response, collectorVars, orchVars>>

\* One turn of its loop: get_drug_counseling for the next medication, the
\* result appended; after the last one the list is returned.
counseling_for_next_drug(sex, age_group, llm, read_ok, save_ok) ==
    LET i == Len(batch_results.results) + 1 IN
    /\ batch_results.running
    /\ batch_results.fn = "get_counseling_for_all_drugs"
    /\ CounselingServiceCall(batch_results.scope[i], sex, age_group,
                             counseling_call_llm(llm), read_ok, save_ok)
    /\ batch_results' =
           [batch_results EXCEPT
               !.results = Append(@, counseling_call'.returned),
               !.items = Append(@, [hit |-> counseling_call'.hit,
                                    failed |-> ~counseling_call'.hit /\ llm.raises,
                                    label_found |-> FALSE]),
               !.running = i < Len(batch_results.scope)]
    /\ UNCHANGED <<storeVars, connVars, logVars, itemVars, mergeVars, toolVars, dosing_calls,
                   fda_label_fetches, llm_calls, dosing_response, collectorVars,
                   orchVars>>

\* ------------------------------------------------------------- orchestrator
\* The three specialist agents; the first two run in Phase 1.
Phase1Workers == {"safety", "disease"}

Workers == Phase1Workers \cup {"counseling"}

\* analyze has not been called: no agent run exists, nothing has been returned.
OrchIdle ==
    /\ pc = "Init"
    /\ run_state = [w \in Workers |-> "idle"]
    /\ run_value = [w \in Workers |-> EmptyDict]
    /\ collected = {}
    /\ pending_exception = FALSE
    /\ safety_result = EmptyDict
    /\ disease_result = EmptyDict
    /\ counseling_result = EmptyDict
    /\ final = None

\* No dosing call has been made.
DosingIdle ==
    /\ dosing_calls = 0
    /\ fda_label_fetches = 0
    /\ llm_calls = 0
    /\ dosing_response = <<>>
    /\ batch_results = NoBatch

\* The collectors as the module defines them.
CollectorsEmpty ==
    /\ dosing_results = EmptyDict
    /\ drug_counseling_results = EmptyDict
    /\ condition_counseling_results = EmptyDict

\* A cache that earlier analyses have filled: one live row per table.
FilledInteractionCache ==
    {[drug1 |-> Lower(NameAB), drug2 |-> Lower(NameB),
      full_result |-> JsonDumps([severity |-> "severe"]), severity |-> "severe",
      cached_at |-> 0, access_count |-> 1]}

FilledFoodCache ==
    {[drug |-> Lower(NameB), full_result |-> JsonDumps([severity |-> "minor"]),
      cached_at |-> 0, access_count |-> 1]}

InitDosing ==
    /\ interaction_cache = FilledInteractionCache
    /\ disease_cache = {}
    /\ food_cache = FilledFoodCache
    /\ now = 0
    /\ available = TRUE
    /\ last_merge = NoMerge
    /\ cache_call = CallsNotRecorded
    /\ ConnIdle
    /\ CounselingIdle
    /\ LogIdle
    /\ ItemIdle
    /\ MergeIdle
    /\ ToolIdle
    /\ DosingIdle
    /\ CollectorsEmpty
    /\ OrchIdle

\* The requests of POST /dosing: one or two medications.
DosingRequests == {<<a>> : a \in FoodDrugNames} \cup {<<NameBUp, NameAB>>}

NextDosing ==
    \/ \E medications \in DosingRequests :
           \E inputs \in DosingInputsOf(medications) :
               dosing_recommendations(medications, inputs)
    \/ \E drug \in DrugNames, fda_label \in FdaLabels :
           \E llm \in LlmOutcomes(drug) :
               get_dosing_recommendation(drug, fda_label, llm)

SpecDosing == InitDosing /\ [][NextDosing]_vars

\* ---- the cache store under any sequence of calls
InitCache ==
    /\ interaction_cache = {}
    /\ disease_cache = {}
    /\ food_cache = {}
    /\ now = 0
    /\ available \in BOOLEAN
    /\ last_merge = NoMerge
    /\ cache_call = CallsNotRecorded
    /\ ConnIdle
    /\ CounselingIdle
    /\ LogIdle
    /\ ItemIdle
    /\ MergeIdle
    /\ ToolIdle
    /\ DosingIdle
    /\ CollectorsEmpty
    /\ OrchIdle

\* The drug-disease pairs a caller asks about.
DiseasePairs == FoodDrugNames \X DiseaseNames

\* The lookups a caller makes: those pairs, in either order.
DiseaseLookups == DiseasePairs \cup {<<p[2], p[1]>> : p \in DiseasePairs}

\* The calls of one run go to one of the three tables (no statement names
\* two tables, so the tables do not interact).
NextCache ==
    \/ \E d \in ClockSteps : AdvanceClock(d)
    \/ \E ok \in BOOLEAN : NewCacheService(ok)
    \/ /\ disease_cache = {} /\ food_cache = {}
       /\ \E p \in DrugPairs, ok \in BOOLEAN : get_drug_drug(p[1], p[2], ok)
    \/ /\ disease_cache = {} /\ food_cache = {}
       /\ \E p \in DrugPairs, x \in Payloads, ok \in BOOLEAN :
              save_drug_drug(p[1], p[2], x, ok)
    \/ /\ interaction_cache = {} /\ food_cache = {}
       /\ \E p \in DiseaseLookups, ok \in BOOLEAN :
              get_drug_disease(p[1], p[2], ok)
    \/ /\ interaction_cache = {} /\ food_cache = {}
       /\ \E p \in DiseasePairs, x \in Payloads, ok \in BOOLEAN :
              save_drug_disease(p[1], p[2], x, ok)
    \/ /\ interaction_cache = {} /\ disease_cache = {}
       /\ \E a \in FoodDrugNames, ok \in BOOLEAN : get_food(a, ok)
    \/ /\ interaction_cache = {} /\ disease_cache = {}
       /\ \E a \in FoodDrugNames, x \in Payloads, ok \in BOOLEAN :
              save_food(a, x, ok)

SpecCache == InitCache /\ [][NextCache]_vars

\* ---- the orchestrator: scope of one analysis
\* analyze(medications, diseases, ...): the lists of the request.
medications == <<NameBUp, NameAB>>

diseases == <<NameXUp>>

\* The counts analyze computes from the lists before it starts the agents.
n_meds == Len(medications)

n_diseases == Len(diseases)

\* len(list(itertools.combinations(medications, 2)))
n_ddi_pairs ==
    Cardinality({c \in (1..n_meds) \X (1..n_meds) : c[1] < c[2]})

n_dd_pairs == n_meds * n_diseases

\* ---- what the agents' models answer
\* One element of "drug_drug", "drug_disease", "drug_food" as an agent writes it.
DrugDrugEntry(severity) ==
    [drug1 |-> medications[1], drug2 |-> medications[2], severity |-> severity]

DrugDiseaseEntry(i, contraindicated) ==
    [drug |-> medications[i], disease |-> diseases[1],
     contraindicated |-> contraindicated]

DrugFoodEntry(i) == [drug |-> medications[i]]

\* The final JSON of the Safety agent, parsed: the array complete, the pair
\* dropped, an entry repeated, an aggregate of its own making, keys missing.
SafetyAnswers ==
    {[drug_drug |-> a, drug_food |-> <<DrugFoodEntry(1), DrugFoodEntry(2)>>,
      risk_summary |-> [severe_count |-> 0, moderate_count |-> 2]] :
        a \in {<<>>, <<DrugDrugEntry("severe")>>,
               <<DrugDrugEntry("moderate"), DrugDrugEntry("moderate")>>}}
    \cup {[drug_drug |-> <<DrugDrugEntry("minor")>>,
           risk_summary |-> [severe_count |-> 2, moderate_count |-> 0]]}

\* The final JSON of the Disease agent, parsed.
DiseaseAnswers ==
    {[drug_disease |-> a, risk_summary |-> [contraindicated_count |-> 1]] :
        a \in {<<>>, <<DrugDiseaseEntry(1, TRUE), DrugDiseaseEntry(2, TRUE)>>}}
    \cup {[drug_disease |-> <<DrugDiseaseEntry(1, TRUE), DrugDiseaseEntry(2, FALSE)>>]}

\* One element of the Counseling agent's arrays: its own summary of a tool
\* result.
DrugCounselingSummary(i) ==
    [drug |-> medications[i], counseling_points |-> "summary"]

ConditionCounselingSummary(i) ==
    [condition |-> diseases[i], lifestyle |-> "summary"]

DosingSummary(i, adjustment_required) ==
    [drug |-> medications[i], adjustment_required |-> adjustment_required,
     from_cache |-> FALSE]

\* The final JSON of the Counseling agent, parsed: complete, or with entities
\* left out of one array or another.
CounselingAnswers ==
    {[drug_counseling |-> <<DrugCounselingSummary(1), DrugCounselingSummary(2)>>,
      condition_counseling |-> <<ConditionCounselingSummary(1)>>,
      dosing_recommendations |-> <<DosingSummary(1, TRUE), DosingSummary(2, FALSE)>>,
      risk_summary |-> [dosing_adjustments_required |-> 0]],
     [drug_counseling |-> <<DrugCounselingSummary(1)>>,
      condition_counseling |-> <<>>,
      dosing_recommendations |-> <<DosingSummary(2, TRUE)>>,
      risk_summary |-> [dosing_adjustments_required |-> 2]]}

Answers(w) ==
    CASE w = "safety" -> SafetyAnswers
      [] w = "disease" -> DiseaseAnswers
      [] w = "counseling" -> CounselingAnswers

\* How a run ends after create_agent: an exception leaves _run (from
\* create_thread_and_process_run or from delete_agent in the finally clause),
\* or _run returns the parsed answer, or {} (status not COMPLETED, no text
\* block, JSON that does not parse).
RunOutcomes(w) ==
    {[raises |-> TRUE, value |-> EmptyDict]}
        \cup {[raises |-> FALSE, value |-> v] : v \in Answers(w) \cup {EmptyDict}}

\* ---- the agent tools that write state
\* save_cache(cache_type, drug1, analysis_json, drug2): a fresh cache service
\* (ok: its connection works) and the save the cache type selects.
save_cache(cache_type, drug1, result, drug2, ok) ==
    CASE cache_type = "drug_drug" /\ drug2 # <<>> ->
             save_drug_drug(drug1, drug2, result, ok)
      [] cache_type = "drug_disease" /\ drug2 # <<>> ->
             save_drug_disease(drug1, drug2, result, ok)
      [] cache_type = "food" -> save_food(drug1, result, ok)
      [] OTHER -> UNCHANGED vars

\* What the drug counseling service returns: it depends on the drug and on
\* the patient (age, sex, dose, conditions, profile) of the call.
DrugCounselingResultFor(drug, patient) ==
    [drug |-> drug, counseling_points |-> "full", patient_context |-> patient]

\* The patient of the analysis that is modelled step by step, and the patient
\* of any other analysis.
ThisPatient == "this patient"

OtherPatient == "another patient"

\* What the counseling services return for a drug, for a condition, during
\* the analysis.
DrugCounselingResult(drug) == DrugCounselingResultFor(drug, ThisPatient)

ConditionCounselingResult(condition) ==
    [condition |-> condition, lifestyle |-> "full"]

\* The tool get_drug_counseling: the service's result, kept in the collector.
get_drug_counseling(drug) ==
    /\ drug_counseling_results' =
           SetKey(drug_counseling_results, Lower(drug), DrugCounselingResult(drug))
    /\ UNCHANGED <<cacheVars, dosingVars, orchVars, dosing_results,
                   condition_counseling_results>>

\* The tool get_condition_counseling.
get_condition_counseling(condition) ==
    /\ condition_counseling_results' =
           SetKey(condition_counseling_results, Lower(condition),
                  ConditionCounselingResult(condition))
    /\ UNCHANGED <<cacheVars, dosingVars, orchVars, dosing_results,
                   drug_counseling_results>>

\* ---- the three collector-writing tools, with the service behind each
\* _collector[name.lower()] = result
CollectorWriteOnce(collector, identifier, result) ==
    IF Lower(identifier) \in DOMAIN collector THEN collector
    ELSE SetKey(collector, Lower(identifier), result)

CollectorWrite(collector, identifier, result) ==
    SetKey(collector, Lower(identifier), result)

\* Where a service's result comes from: its cache, the model, or the dict
\* of _call_llm's except branch.
ResultOrigin(hit, llm_raises) ==
    IF hit THEN "cache" ELSE IF llm_raises THEN "error" ELSE "fresh"

\* The tool get_drug_counseling with DrugCounselingService behind it.
drug_counseling_tool(drug, sex, age_group, llm, read_ok, save_ok) ==
    /\ CounselingServiceCall(drug, sex, age_group, counseling_call_llm(llm),
                             read_ok, save_ok)
    /\ drug_counseling_results' =
           CollectorWrite(drug_counseling_results, drug, counseling_call'.returned)
    /\ tool_call' =
           [tool |-> "get_drug_counseling", identifier |-> drug,
            origin |-> ResultOrigin(counseling_call'.hit, llm.raises),
            returned |-> counseling_call'.returned]
    /\ UNCHANGED <<storeVars, connVars, logVars, itemVars, mergeVars, dosingVars,
                   dosing_results, condition_counseling_results, orchVars, agent_run>>

\* What ConditionCounselingService.get_condition_counseling returns: the
\* payload an earlier request stored, the model's answer marked
\* from_cache = False, or the dict of _call_llm's except branch, marked too.
ConditionServiceResult(condition, origin) ==
    CASE origin = "cache" ->
             [condition |-> condition, monitoring |-> "stored", from_cache |-> FALSE]
      [] origin = "fresh" ->
             [condition |-> condition, monitoring |-> "weekly", from_cache |-> FALSE]
      [] origin = "error" ->
             [condition |-> <<>>, monitoring |-> "Consult physician",
              error |-> "LLM error", from_cache |-> FALSE]

\* The tool get_condition_counseling, the service's result being of `origin`.
condition_counseling_tool(condition, origin) ==
    /\ condition_counseling_results' =
           CollectorWrite(condition_counseling_results, condition,
                          ConditionServiceResult(condition, origin))
    /\ tool_call' =
           [tool |-> "get_condition_counseling", identifier |-> condition,
            origin |-> origin,
            returned |-> ConditionServiceResult(condition, origin)]
    /\ UNCHANGED <<storeVars, connVars, counselingVars, logVars, itemVars,
                   mergeVars, dosingVars, dosing_results,
                   drug_counseling_results, orchVars, agent_run>>

\* The tool get_dosing_recommendation, the call seen by its caller.
dosing_tool(drug, fda_label, llm) ==
    /\ dosing_calls < MaxDosingCalls
    /\ dosing_calls' = dosing_calls + 1
    /\ fda_label_fetches' = fda_label_fetches + 1
    /\ llm_calls' = llm_calls + 1
    /\ dosing_results' =
           CollectorWrite(dosing_results, drug,
                          dosing_recommendation(drug, fda_label, llm))
    /\ tool_call' =
           [tool |-> "get_dosing_recommendation", identifier |-> drug,
            origin |-> ResultOrigin(FALSE, llm.raises),
            returned |-> dosing_recommendation(drug, fda_label, llm)]
    /\ UNCHANGED <<storeVars, connVars, counselingVars, logVars, itemVars,
                   mergeVars, dosing_response, batch_results,
                   drug_counseling_results, condition_counseling_results,
                   orchVars, agent_run>>

\* ---- _BaseAgent._run, step by step
\* create_agent, the first statement of _run and outside its try: on failure
\* the exception leaves _run; raised in analyze's own thread (the Counseling
\* agent) it leaves analyze.
create_agent(w, ok) ==
    /\ run_state[w] = "submitted"
    /\ run_state' = [run_state EXCEPT ![w] = IF ok THEN "running" ELSE "raised"]
    /\ pc' = IF w = "counseling" /\ ~ok THEN "Raised" ELSE pc
    /\ UNCHANGED <<cacheVars, dosingVars, collectorVars, run_value, collected,
                   pending_exception, safety_result, disease_result,
                   counseling_result, final>>

\* The rest of _run: the run ends, the answer is parsed, the agent is deleted.
\* The Counseling agent's _run is a call of analyze itself: its value goes to
\* counseling_result, its exception leaves analyze.
run_finish(w, outcome) ==
    /\ run_state[w] = "running"
    /\ run_state' =
           [run_state EXCEPT ![w] = IF outcome.raises THEN "raised" ELSE "returned"]
    /\ run_value' = [run_value EXCEPT ![w] = outcome.value]
    /\ IF w = "counseling"
       THEN /\ pc' = IF outcome.raises THEN "Raised" ELSE "Merging"
            /\ counseling_result' =
                   IF outcome.raises THEN counseling_result ELSE outcome.value
       ELSE UNCHANGED <<pc, counseling_result>>
    /\ UNCHANGED <<cacheVars, dosingVars, collectorVars, collected,
                   pending_exception, safety_result, disease_result, final>>

\* ---- VabGenRxOrchestrator.analyze, step by step
\* The collectors left as they are.
KeepCollectors == UNCHANGED collectorVars

\* The three assignments that empty the module-level collectors.
ResetCollectors ==
    /\ dosing_results' = EmptyDict
    /\ drug_counseling_results' = EmptyDict
    /\ condition_counseling_results' = EmptyDict

\* Up to the two executor.submit calls: the collectors are emptied, the locals
\* initialised, both Phase 1 futures submitted.
analyze_start ==
    /\ pc = "Init"
    /\ ResetCollectors
    /\ safety_result' = EmptyDict
    /\ disease_result' = EmptyDict
    /\ counseling_result' = EmptyDict
    /\ run_state' = [w \in Workers |->
                        IF w \in Phase1Workers THEN "submitted" ELSE "idle"]
    /\ run_value' = [w \in Workers |-> EmptyDict]
    /\ collected' = {}
    /\ pending_exception' = FALSE
    /\ final' = None
    /\ pc' = "Phase1Running"
    /\ UNCHANGED <<cacheVars, dosingVars>>

\* Future.done() of a Phase 1 future, with a running call counted as done.
future_done_or_running(w) == run_state[w] \in {"running", "returned", "raised"}

\* Future.done() of a Phase 1 future.
future_done(w) == run_state[w] \in {"returned", "raised"}

\* One turn of the loop over as_completed: a finished future is yielded and
\* its result() taken, which re-raises what the call raised.
as_completed_next(w) ==
    /\ pc = "Phase1Running"
    /\ ~pending_exception
    /\ w \notin collected
    /\ future_done(w)
    /\ IF run_state[w] = "raised"
       THEN /\ pending_exception' = TRUE
            /\ UNCHANGED <<collected, safety_result, disease_result>>
       ELSE /\ collected' = collected \cup {w}
            /\ safety_result' = IF w = "safety" THEN run_value[w] ELSE safety_result
            /\ disease_result' = IF w = "disease" THEN run_value[w] ELSE disease_result
            /\ UNCHANGED pending_exception
    /\ UNCHANGED <<cacheVars, dosingVars, collectorVars, pc, run_state, run_value,
                   counseling_result, final>>

\* The end of the with block: the loop is over or an exception is leaving,
\* and shutdown(wait=True) has seen both calls finish.  A pending exception
\* then leaves analyze.
executor_exit ==
    /\ pc = "Phase1Running"
    /\ pending_exception \/ collected = Phase1Workers
    /\ \A w \in Phase1Workers : future_done(w)
    /\ pc' = IF pending_exception THEN "Raised" ELSE "Phase1Joined"
    /\ UNCHANGED <<cacheVars, dosingVars, collectorVars, run_state, run_value,
                   collected, pending_exception, safety_result, disease_result,
                   counseling_result, final>>

\* The call of counseling_agent.analyze, up to its _run.
counseling_start ==
    /\ pc = "Phase1Joined"
    /\ pc' = "Phase2Running"
    /\ run_state' = [run_state EXCEPT !["counseling"] = "submitted"]
    /\ UNCHANGED <<cacheVars, dosingVars, collectorVars, run_value, collected,
                   pending_exception, safety_result, disease_result,
                   counseling_result, final>>

\* ---- the merge
\* sum(1 for r in array if r.get(key) == value)
CountEqual(array, key, value) ==
    Cardinality({i \in DOMAIN array :
                    key \in DOMAIN array[i] /\ array[i][key] = value})

\* A worker's own aggregate where it reported one, else the count of its array.
CountReported(result, array_key, key, value) ==
    Get(Get(result, "risk_summary", EmptyDict),
        IF key = "contraindicated" THEN "contraindicated_count"
        ELSE IF value = "severe" THEN "severe_count"
        ELSE "moderate_count",
        CountEqual(Get(result, array_key, <<>>), key, value))

\* severe_count, mod_count, contra_count: counted over the worker's array.
CountOf(result, array_key, key, value) ==
    CountEqual(Get(result, array_key, <<>>), key, value)

\* [collector[d.lower()] for d in scope if d.lower() in collector]
\* The same entries, the last of the scope first.
RECURSIVE CollectedEntriesReversed(_, _)
CollectedEntriesReversed(collector, scope) ==
    IF scope = <<>> THEN <<>>
    ELSE CollectedEntriesReversed(collector, Tail(scope)) \o
         (IF Lower(Head(scope)) \in DOMAIN collector
          THEN <<collector[Lower(Head(scope))]>>
          ELSE <<>>)

RECURSIVE CollectedEntries(_, _)
CollectedEntries(collector, scope) ==
    IF scope = <<>> THEN <<>>
    ELSE (IF Lower(Head(scope)) \in DOMAIN collector
          THEN <<collector[Lower(Head(scope))]>>
          ELSE <<>>) \o CollectedEntries(collector, Tail(scope))

\* The agent's array whatever the collector holds.
PreferAgentArray(collector, scope, fallback) == fallback

\* The collected entries followed by the agent's array.
CollectedThenAgentArray(collector, scope, fallback) ==
    CollectedEntries(collector, scope) \o fallback

\* (collected entries) if collector else (the agent's array)
PreferCollected(collector, scope, fallback) ==
    IF DOMAIN collector # {} THEN CollectedEntries(collector, scope) ELSE fallback

\* One of the three assignments of a collector-derived array, for any
\* collector, scope list and agent array.
collector_array(collector, scope, fallback) ==
    /\ merge_call' = [scope |-> scope, collector |-> collector,
                      fallback |-> fallback,
                      array |-> PreferCollected(collector, scope, fallback),
                      built |-> TRUE]
    /\ UNCHANGED <<storeVars, connVars, counselingVars, logVars, itemVars,
                   toolVars, dosingVars, collectorVars, orchVars>>

\* The drug_drug array rebuilt from what the run saved to the cache.
DrugDrugFromCache(result) ==
    IF \E r \in interaction_cache : <<r.drug1, r.drug2>> = DDKey(medications[1], medications[2])
    THEN <<DrugDrugEntry("severe")>>
    ELSE Get(result, "drug_drug", <<>>)

\* all_ddi = safety_result.get("drug_drug", [])
MergedDrugDrug(result) == Get(result, "drug_drug", <<>>)

\* all_dd = disease_result.get("drug_disease", [])
MergedDrugDisease(result) == Get(result, "drug_disease", <<>>)

\* risk_summary.level
RiskLevelSevereOnly(severe_count, mod_count, contra_count) ==
    IF severe_count > 0 THEN "HIGH"
    ELSE IF mod_count > 0 THEN "MODERATE"
    ELSE "LOW"

RiskLevel(severe_count, mod_count, contra_count) ==
    IF severe_count > 0 \/ contra_count > 0 THEN "HIGH"
    ELSE IF mod_count > 0 THEN "MODERATE"
    ELSE "LOW"

\* final, as analyze builds it from its locals and the collectors.
MergedAnalysis ==
    LET all_ddi == MergedDrugDrug(safety_result)
        all_dd == MergedDrugDisease(disease_result)
        severe_count == CountOf(safety_result, "drug_drug", "severity", "severe")
        mod_count == CountOf(safety_result, "drug_drug", "severity", "moderate")
        contra_count == CountOf(disease_result, "drug_disease", "contraindicated", TRUE)
        dosing == PreferCollected(dosing_results, medications,
                      Get(counseling_result, "dosing_recommendations", <<>>))
    IN  [drug_drug |-> all_ddi,
         drug_disease |-> all_dd,
         drug_food |-> Get(safety_result, "drug_food", <<>>),
         drug_counseling |->
             PreferCollected(drug_counseling_results, medications,
                 Get(counseling_result, "drug_counseling", <<>>)),
         condition_counseling |->
             PreferCollected(condition_counseling_results, diseases,
                 Get(counseling_result, "condition_counseling", <<>>)),
         dosing_recommendations |-> dosing,
         risk_summary |->
             [level |-> RiskLevel(severe_count, mod_count, contra_count),
              severe_count |-> severe_count,
              moderate_count |-> mod_count,
              contraindicated_count |-> contra_count,
              dosing_adjustments_required |->
                  CountEqual(dosing, "adjustment_required", TRUE)]]

\* The merge and the return of analyze.
merge ==
    /\ pc = "Merging"
    /\ final' = MergedAnalysis
    /\ pc' = "Done"
    /\ UNCHANGED <<cacheVars, dosingVars, collectorVars, run_state, run_value,
                   collected, pending_exception, safety_result, disease_result,
                   counseling_result>>

\* ---- the orchestrator under any agent behaviour
\* What an earlier analysis, for another patient, recorded: a dosing result
\* without adjustment and a drug counseling result.
LeftOverDosing ==
    dosing_recommendation(NameAB, ScoredSections,
        [raises |-> FALSE,
         json |-> [drug |-> NameAB, adjustment_required |-> FALSE]])

LeftOverDrugCounseling == DrugCounselingResultFor(NameB, OtherPatient)

\* The collectors and the dosing counters as that earlier analysis left them.
CollectorsLeftOver ==
    /\ dosing_results = SetKey(EmptyDict, Lower(NameAB), LeftOverDosing)
    /\ drug_counseling_results =
           SetKey(EmptyDict, Lower(NameB), LeftOverDrugCounseling)
    /\ condition_counseling_results = EmptyDict
    /\ dosing_calls = 1
    /\ fda_label_fetches = 1
    /\ llm_calls = 1
    /\ dosing_response = <<>>
    /\ batch_results = NoBatch

InitOrch ==
    /\ interaction_cache = {}
    /\ disease_cache = {}
    /\ food_cache = {}
    /\ now = 0
    /\ available = TRUE
    /\ last_merge = NoMerge
    /\ cache_call = CallsNotRecorded
    /\ ConnIdle
    /\ CounselingIdle
    /\ LogIdle
    /\ ItemIdle
    /\ MergeIdle
    /\ ToolIdle
    /\ (DosingIdle /\ CollectorsEmpty) \/ CollectorsLeftOver
    /\ OrchIdle

\* Some agent's run is processing: its model may call any tool of the toolset.
ToolCallable == \E w \in Workers : run_state[w] = "running"

\* The save_cache calls of a run: (cache_type, drug1, drug2).
SaveCacheCalls ==
    {<<"drug_drug", medications[1], medications[2]>>}

\* What the dosing model does during an analysis: it fails, or it answers.
OrchLlmOutcomes ==
    {LlmRaises,
     [raises |-> FALSE, json |-> [drug |-> NameB, adjustment_required |-> TRUE]]}

NextOrch ==
    \/ analyze_start
    \/ \E w \in Workers, ok \in BOOLEAN : create_agent(w, ok)
    \/ \E w \in Workers : \E outcome \in RunOutcomes(w) : run_finish(w, outcome)
    \/ \E w \in Phase1Workers : as_completed_next(w)
    \/ executor_exit
    \/ counseling_start
    \/ merge
    \/ /\ ToolCallable
       /\ \E c \in SaveCacheCalls :
              save_cache(c[1], c[2], [severity |-> "severe"], c[3], TRUE)
    \/ /\ ToolCallable
       /\ \E drug \in DrugNames : get_drug_counseling(drug)
    \/ /\ ToolCallable
       /\ \E condition \in DiseaseNames : get_condition_counseling(condition)
    \/ /\ ToolCallable
       /\ \E drug \in DrugNames, llm \in OrchLlmOutcomes :
              get_dosing_recommendation(drug, ScoredSections, llm)

SpecOrch == InitOrch /\ [][NextOrch]_vars

\* ---- the orchestrator while other analyze calls overlap
\* The HTTP layer serves requests on several threads, all calling analyze of
\* the one orchestrator object, and the collectors are module globals.  The
\* other calls act on the state of this one through the collectors only.
\* Another call starts: it empties the collectors.
other_analyze_start ==
    /\ ResetCollectors
    /\ UNCHANGED <<cacheVars, dosingVars, orchVars>>

\* The Counseling agent of another call, for another patient, calls the tool
\* get_drug_counseling.
other_get_drug_counseling(drug) ==
    /\ drug_counseling_results' =
           SetKey(drug_counseling_results, Lower(drug),
                  DrugCounselingResultFor(drug, OtherPatient))
    /\ UNCHANGED <<cacheVars, dosingVars, orchVars, dosing_results,
                   condition_counseling_results>>

\* This call is between its first and its last statement.
AnalyzeInProgress ==
    pc \in {"Phase1Running", "Phase1Joined", "Phase2Running", "Merging"}

InitConcurrent ==
    /\ interaction_cache = {}
    /\ disease_cache = {}
    /\ food_cache = {}
    /\ now = 0
    /\ available = TRUE
    /\ last_merge = NoMerge
    /\ cache_call = CallsNotRecorded
    /\ ConnIdle
    /\ CounselingIdle
    /\ LogIdle
    /\ ItemIdle
    /\ MergeIdle
    /\ ToolIdle
    /\ DosingIdle
    /\ CollectorsEmpty
    /\ OrchIdle

\* This call with agents that are created and end without raising, the
\* Phase 1 agents with any answer of theirs, and the other calls' steps while
\* this one is in progress.
NextConcurrent ==
    \/ analyze_start
    \/ \E w \in Workers : create_agent(w, TRUE)
    \/ \E w \in Workers :
           \E outcome \in {o \in RunOutcomes(w) : ~o.raises} : run_finish(w, outcome)
    \/ \E w \in Phase1Workers : as_completed_next(w)
    \/ executor_exit
    \/ counseling_start
    \/ merge
    \/ /\ run_state["counseling"] = "running"
       /\ \E drug \in DrugNames : get_drug_counseling(drug)
    \/ /\ run_state["counseling"] = "running"
       /\ \E drug \in DrugNames, llm \in OrchLlmOutcomes :
              get_dosing_recommendation(drug, ScoredSections, llm)
    \/ /\ AnalyzeInProgress
       /\ other_analyze_start
    \/ /\ AnalyzeInProgress
       /\ \E drug \in DrugNames : other_get_drug_counseling(drug)

SpecConcurrent == InitConcurrent /\ [][NextConcurrent]_vars

\* ---- the cache store as its callers see it
\* The calls of one caller whose view is recorded: two pairs, one drug and
\* condition, one drug, in the spellings callers use; as in NextCache, the
\* calls of one run go to one table.
StorePairs == {<<NameBUp, NameAB>>, <<NameB, NameBUp>>}

\* What it stores for them, the names in the other order.
StoreSaves ==
    {<<NameAB, NameBUp, [severity |-> "severe"]>>,
     <<NameAB, NameBUp, [severity |-> "minor"]>>,
     <<NameBUp, NameB, [severity |-> "severe"]>>}

InitStore ==
    /\ interaction_cache = {}
    /\ disease_cache = {}
    /\ food_cache = {}
    /\ now = 0
    /\ available \in BOOLEAN
    /\ last_merge = NoMerge
    /\ cache_call = NoCacheCall
    /\ ConnIdle
    /\ CounselingIdle
    /\ LogIdle
    /\ ItemIdle
    /\ MergeIdle
    /\ ToolIdle
    /\ DosingIdle
    /\ CollectorsEmpty
    /\ OrchIdle

NextStore ==
    \/ \E d \in {CACHE_TTL_DAYS - 1, CACHE_TTL_DAYS} : AdvanceClock(d)
    \/ \E ok \in BOOLEAN : NewCacheService(ok)
    \/ /\ disease_cache = {} /\ food_cache = {}
       /\ \E p \in StorePairs, ok \in BOOLEAN : get_drug_drug(p[1], p[2], ok)
    \/ /\ disease_cache = {} /\ food_cache = {}
       /\ \E c \in StoreSaves, ok \in BOOLEAN :
              save_drug_drug(c[1], c[2], c[3], ok)
    \/ /\ interaction_cache = {} /\ food_cache = {}
       /\ \E ok \in BOOLEAN : get_drug_disease(NameB, NameXUp, ok)
    \/ /\ interaction_cache = {} /\ food_cache = {}
       /\ \E x \in Payloads, ok \in BOOLEAN :
              save_drug_disease(NameBUp, NameX, x, ok)
    \/ /\ interaction_cache = {} /\ disease_cache = {}
       /\ \E ok \in BOOLEAN : get_food(NameBUp, ok)
    \/ /\ interaction_cache = {} /\ disease_cache = {}
       /\ \E x \in Payloads, ok \in BOOLEAN : save_food(NameB, x, ok)

SpecStore == InitStore /\ [][NextStore]_vars

\* ---- get_connection called from any thread, connections ending at any time
InitConn ==
    /\ interaction_cache = {}
    /\ disease_cache = {}
    /\ food_cache = {}
    /\ now = 0
    /\ available = TRUE
    /\ last_merge = NoMerge
    /\ cache_call = CallsNotRecorded
    /\ ConnIdle
    /\ CounselingIdle
    /\ LogIdle
    /\ ItemIdle
    /\ MergeIdle
    /\ ToolIdle
    /\ DosingIdle
    /\ CollectorsEmpty
    /\ OrchIdle

NextConn ==
    \/ \E t \in Threads, connect_ok \in BOOLEAN : get_connection(t, connect_ok)
    \/ \E i \in 1..MaxHandles : connection_lost(i)

SpecConn == InitConn /\ [][NextConn]_vars

\* ---- the counseling service called for any drug, at any time
InitCounseling ==
    /\ interaction_cache = {}
    /\ disease_cache = {}
    /\ food_cache = {}
    /\ now = 0
    /\ available = TRUE
    /\ last_merge = NoMerge
    /\ cache_call = CallsNotRecorded
    /\ ConnIdle
    /\ CounselingIdle
    /\ LogIdle
    /\ ItemIdle
    /\ MergeIdle
    /\ ToolIdle
    /\ DosingIdle
    /\ CollectorsEmpty
    /\ OrchIdle

NextCounseling ==
    \/ \E d \in ClockSteps : AdvanceClock(d)
    \/ \E drug \in FoodDrugNames, age_group \in AgeGroups,
          llm_result \in CounselingLlmResults, read_ok, save_ok \in BOOLEAN :
           service_get_drug_counseling(drug, SexF, age_group, llm_result,
                                       read_ok, save_ok)

SpecCounseling == InitCounseling /\ [][NextCounseling]_vars

\* ---- the batch methods called with any medication list
\* The medication lists of a batch call: none, one, two medications.
BatchScopes == {<<>>, <<NameBUp>>, <<NameBUp, NameAB>>}

InitBatch ==
    /\ interaction_cache = {}
    /\ disease_cache = {}
    /\ food_cache = {}
    /\ now = 0
    /\ available = TRUE
    /\ last_merge = NoMerge
    /\ cache_call = CallsNotRecorded
    /\ ConnIdle
    /\ CounselingIdle
    /\ LogIdle
    /\ ItemIdle
    /\ MergeIdle
    /\ ToolIdle
    /\ DosingIdle
    /\ CollectorsEmpty
    /\ OrchIdle

\* What the dosing calls of a batch meet: no label or a full one, the model
\* failing or answering.
BatchDosingInputsOf(meds) ==
    {inputs \in DosingInputsOf(meds) :
        \A i \in DOMAIN inputs :
            /\ inputs[i][1] \in {{}, ScoredSections}
            /\ inputs[i][2].raises \/ inputs[i][2].json =
                   [drug |-> meds[i], adjustment_required |-> TRUE]}

\* A run calls one of the two batch methods, any number of times.
NextBatch ==
    \/ \E d \in {CACHE_TTL_DAYS - 1, CACHE_TTL_DAYS} : AdvanceClock(d)
    \/ /\ batch_results.fn # "get_counseling_for_all_drugs"
       /\ \E meds \in BatchScopes :
              \E inputs \in BatchDosingInputsOf(meds) :
                  get_dosing_for_all_drugs(meds, inputs)
    \/ /\ batch_results.fn # "get_dosing_for_all_drugs"
       /\ \E meds \in BatchScopes : get_counseling_for_all_drugs(meds)
    \/ \E llm \in CounselingLlmOutcomes, read_ok, save_ok \in BOOLEAN :
           counseling_for_next_drug(SexF, "adult", llm, read_ok, save_ok)

SpecBatch == InitBatch /\ [][NextBatch]_vars

\* ---- POST /analyze: its last statements, for any request
\* How many rows one run of the model puts in the log.
MaxLogRows == 2

\* The results the endpoint has computed for a request: one drug pair
\* at most, one drug-disease pair at most.
LoggedResults ==
    {[drug_drug |-> a, drug_disease |-> b] :
        a \in {<<>>, <<[severity |-> "severe"]>>, <<[severity |-> "moderate"]>>,
               <<[severity |-> "minor"]>>},
        b \in {<<>>, <<[contraindicated |-> TRUE]>>, <<[contraindicated |-> FALSE]>>}}

InitLog ==
    /\ interaction_cache = {}
    /\ disease_cache = {}
    /\ food_cache = {}
    /\ now = 0
    /\ available \in BOOLEAN
    /\ last_merge = NoMerge
    /\ cache_call = CallsNotRecorded
    /\ ConnIdle
    /\ CounselingIdle
    /\ LogIdle
    /\ ItemIdle
    /\ MergeIdle
    /\ ToolIdle
    /\ DosingIdle
    /\ CollectorsEmpty
    /\ OrchIdle

NextLog ==
    \/ \E d \in ClockSteps : AdvanceClock(d)
    \/ \E ok \in BOOLEAN : NewCacheService(ok)
    \/ /\ Len(analysis_log) < MaxLogRows
       /\ \E session_id \in 1..MaxLogRows, results \in LoggedResults,
             ok \in BOOLEAN :
              analyze(session_id, <<NameBUp, NameAB>>, <<NameXUp>>, results, ok)

SpecLog == InitLog /\ [][NextLog]_vars

\* ---- items processed one after another, by each of the three paths
InitItem ==
    /\ interaction_cache = {}
    /\ disease_cache = {}
    /\ food_cache = {}
    /\ now = 0
    /\ available \in BOOLEAN
    /\ last_merge = NoMerge
    /\ cache_call = CallsNotRecorded
    /\ ConnIdle
    /\ CounselingIdle
    /\ LogIdle
    /\ ItemIdle
    /\ MergeIdle
    /\ ToolIdle
    /\ DosingIdle
    /\ CollectorsEmpty
    /\ OrchIdle

\* The pairs are those of StorePairs with the results of StoreSaves; a run
\* of the model uses the drug-drug table or the counseling table.
NextItem ==
    \/ \E d \in {CACHE_TTL_DAYS - 1, CACHE_TTL_DAYS} : AdvanceClock(d)
    \/ /\ drug_counseling_cache = {}
       /\ \E c \in StoreSaves, get_ok, save_ok \in BOOLEAN :
              check_drug_drug(c[1], c[2], c[3], get_ok, save_ok)
    \/ /\ drug_counseling_cache = {}
       /\ \E c \in StoreSaves, get_ok, save_ok \in BOOLEAN :
              safety_agent_pair(c[1], c[2], c[3], get_ok, save_ok)
    \/ /\ interaction_cache = {}
       /\ \E drug \in FoodDrugNames, age_group \in AgeGroups,
             llm_result \in CounselingLlmResults, read_ok, save_ok \in BOOLEAN :
              drug_counseling_item(drug, SexF, age_group, llm_result,
                                   read_ok, save_ok)

SpecItem == InitItem /\ [][NextItem]_vars

\* ---- a collector-derived array for any collector and any scope list
\* The longest scope list.
MaxScope == 3

\* "z": a name no scope list has.
NameZ == <<122>>

\* The names of the scope lists, and the scope lists: any names in any order,
\* repeated or not.
ScopeNames == {NameBUp, NameAB, NameXUp}

ScopeLists == UNION {[1..n -> ScopeNames] : n \in 0..MaxScope}

\* The keys a collector may hold: the tools lower-case the name they are
\* called with, which may be a name outside the scope list.
CollectorKeys == {Lower(name) : name \in ScopeNames} \cup {NameZ}

\* A collector: under each of its keys the full result recorded for it.
Collectors ==
    {[k \in keys |-> [name |-> k, origin |-> "tool"]] :
        keys \in SUBSET CollectorKeys}

\* The Counseling agent's own array: missing or empty, or with an entry.
AgentArrays == {<<>>, <<[name |-> NameAB, origin |-> "agent"]>>}

InitMerge ==
    /\ interaction_cache = {}
    /\ disease_cache = {}
    /\ food_cache = {}
    /\ now = 0
    /\ available = TRUE
    /\ last_merge = NoMerge
    /\ cache_call = CallsNotRecorded
    /\ ConnIdle
    /\ CounselingIdle
    /\ LogIdle
    /\ ItemIdle
    /\ MergeIdle
    /\ ToolIdle
    /\ DosingIdle
    /\ CollectorsEmpty
    /\ OrchIdle

\* One array is built in a run of the model.
NextMerge ==
    /\ MergeIdle
    /\ ToolIdle
    /\ \E collector \in Collectors, scope \in ScopeLists, fallback \in AgentArrays :
           collector_array(collector, scope, fallback)

SpecMerge == InitMerge /\ [][NextMerge]_vars

\* ---- the collector-writing tools called in any order
InitTools ==
    /\ interaction_cache = {}
    /\ disease_cache = {}
    /\ food_cache = {}
    /\ now = 0
    /\ available = TRUE
    /\ last_merge = NoMerge
    /\ cache_call = CallsNotRecorded
    /\ ConnIdle
    /\ CounselingIdle
    /\ LogIdle
    /\ ItemIdle
    /\ MergeIdle
    /\ ToolIdle
    /\ DosingIdle
    /\ CollectorsEmpty
    /\ OrchIdle

NextTools ==
    \/ \E drug \in FoodDrugNames, llm \in CounselingLlmOutcomes,
          read_ok, save_ok \in BOOLEAN :
           drug_counseling_tool(drug, SexF, "adult", llm, read_ok, save_ok)
    \/ \E condition \in DiseaseNames, origin \in {"cache", "fresh", "error"} :
           condition_counseling_tool(condition, origin)
    \/ \E drug \in FoodDrugNames, llm \in OrchLlmOutcomes :
           dosing_tool(drug, ScoredSections, llm)

SpecTools == InitTools /\ [][NextTools]_vars

\* ---- save_drug_drug on two threads at once, statement by statement
\* An outcome of a store that a single-statement check cannot see: the
\* table has no constraint on the pair.
NoUniqueConstraint(k) == FALSE

\* CONSTRAINT UQ_drug_pair UNIQUE (drug1, drug2): the INSERT of a pair the
\* table already holds fails.
UniqueViolation(k) == DDRows(k) # {}

\* save_drug_drug on thread t up to its MERGE: the early return, the
\* normalised key, and conn = self._conn(), which is this thread's
\* connection; connect_ok is false when no connection can be made, and the
\* exception of that ends the call in its except branch.
store_begin(t, drug1, drug2, result, connect_ok) ==
    LET r == GetConnection(t, connect_ok)
        out == ExceptReturnsNone(connect_ok, None)
    IN  /\ store_threads[t].pc = "idle"
        /\ available
        /\ Len(r.conns) <= MaxHandles
        /\ thread_local' = r.slots
        /\ handles' = r.conns
        /\ conn_call' = r.call
        /\ store_threads' =
               [store_threads EXCEPT ![t] =
                   [pc |-> IF r.call.raised THEN "done" ELSE "connected",
                    key |-> DDKey(drug1, drug2), result |-> result,
                    conn |-> r.call.returned, matched |-> FALSE,
                    raised |-> out.raised,
                    error |-> IF r.call.raised THEN "connect" ELSE "none"]]
        /\ UNCHANGED <<storeVars, nonCacheVars>>

\* The MERGE of thread t evaluates its ON condition against the table.
merge_match(t) ==
    /\ store_threads[t].pc = "connected"
    /\ store_threads' =
           [store_threads EXCEPT ![t].pc = "merging",
                                 ![t].matched = DDRows(store_threads[t].key) # {}]
    /\ UNCHANGED <<thread_local, handles, conn_call, storeVars, nonCacheVars>>

\* The MERGE of thread t acts on what it matched, and the call ends: the
\* UPDATE of the matched record, or the INSERT, which fails on the UNIQUE
\* constraint when another thread has inserted the pair meanwhile; the
\* failure is caught by `except Exception` and the call returns.
merge_apply(t) ==
    LET st == store_threads[t]
        k == st.key
        duplicate == ~st.matched /\ UniqueViolation(k)
        out == ExceptReturnsNone(~duplicate, None)
    IN  /\ st.pc = "merging"
        /\ interaction_cache' =
               IF st.matched
               THEN (interaction_cache \ DDRows(k)) \cup
                    {[r EXCEPT !.full_result = JsonDumps(st.result),
                               !.severity = st.result.severity,
                               !.cached_at = now] : r \in DDRows(k)}
               ELSE IF duplicate THEN interaction_cache
               ELSE interaction_cache \cup
                    {[drug1 |-> k[1], drug2 |-> k[2],
                      full_result |-> JsonDumps(st.result),
                      severity |-> st.result.severity,
                      cached_at |-> now, access_count |-> 1]}
        /\ store_threads' =
               [store_threads EXCEPT ![t].pc = "done",
                                     ![t].raised = out.raised,
                                     ![t].error = IF duplicate THEN "duplicate key"
                                                  ELSE "none"]
        /\ UNCHANGED <<disease_cache, food_cache, now, available, last_merge,
                       cache_call, thread_local, handles, conn_call, nonCacheVars>>

\* The pair both threads store, in either order and spelling.
RacePairs == {<<NameAB, NameBUp>>, <<NameBUp, NameAB>>, <<NameB, NameAB>>}

\* The key all of them normalise to.
RaceKey == DDKey(NameAB, NameBUp)

\* The table before the two stores: empty, or holding the pair already.
RaceTables ==
    {{},
     {[drug1 |-> RaceKey[1], drug2 |-> RaceKey[2],
       full_result |-> JsonDumps([severity |-> "moderate"]),
       severity |-> "moderate", cached_at |-> 0, access_count |-> 1]}}

InitRace ==
    /\ interaction_cache \in RaceTables
    /\ disease_cache = {}
    /\ food_cache = {}
    /\ now = 0
    /\ available = TRUE
    /\ last_merge = NoMerge
    /\ cache_call = CallsNotRecorded
    /\ ConnIdle
    /\ CounselingIdle
    /\ LogIdle
    /\ ItemIdle
    /\ MergeIdle
    /\ ToolIdle
    /\ DosingIdle
    /\ CollectorsEmpty
    /\ OrchIdle

NextRace ==
    \/ /\ now = 0
       /\ \E d \in ClockSteps : AdvanceClock(d)
    \/ \E t \in Threads, p \in RacePairs, x \in Payloads, connect_ok \in BOOLEAN :
           store_begin(t, p[1], p[2], x, connect_ok)
    \/ \E t \in Threads : merge_match(t)
    \/ \E t \in Threads : merge_apply(t)

SpecRace == InitRace /\ [][NextRace]_vars

\* ---- _run and its remote agent, statement by statement
\* What the try block of _run does: it raises (enable_auto_function_calls,
\* create_thread_and_process_run or _get_messages), or it returns the
\* parsed answer, or {} (status not COMPLETED, JSON that does not parse), or
\* it ends without a return (no text block).
TryOutcomes ==
    {[raises |-> TRUE, value |-> "none"],
     [raises |-> FALSE, value |-> "answer"],
     [raises |-> FALSE, value |-> "{}"]}

\* A try block whose cleanup is skipped when it raises.
AfterTryOnReturnOnly(outcome) == IF outcome.raises THEN "raised" ELSE "finally"

\* try: ... finally: the finally clause runs however the try block ends.
AfterTry(outcome) == "finally"

\* agent = self.client.create_agent(...), outside the try: when it raises,
\* no agent was created and the exception leaves _run.
run_create_agent(n, ok) ==
    /\ agent_run[n].pc = "idle"
    /\ agent_run' =
           [agent_run EXCEPT ![n].pc = IF ok THEN "try" ELSE "raised",
                             ![n].created = IF ok THEN 1 ELSE 0,
                             ![n].exists = ok,
                             ![n].pending = [raises |-> ~ok, value |-> "none"]]
    /\ UNCHANGED <<storeVars, connVars, counselingVars, logVars, itemVars,
                   mergeVars, tool_call, dosingVars, collectorVars, orchVars>>

\* The try block, up to its return or its exception.
run_try(n, outcome) ==
    /\ agent_run[n].pc = "try"
    /\ agent_run' = [agent_run EXCEPT ![n].pc = AfterTry(outcome),
                                      ![n].pending = outcome]
    /\ UNCHANGED <<storeVars, connVars, counselingVars, logVars, itemVars,
                   mergeVars, tool_call, dosingVars, collectorVars, orchVars>>

\* finally: self.client.delete_agent(agent.id). When the call succeeds the
\* agent is gone and _run ends as its try block did; when it raises the
\* agent remains and that exception leaves _run.
run_finally(n, ok) ==
    /\ agent_run[n].pc = "finally"
    /\ agent_run' =
           [agent_run EXCEPT ![n].pc = IF ok /\ ~agent_run[n].pending.raises
                                       THEN "returned" ELSE "raised",
                             ![n].delete_calls = @ + 1,
                             ![n].exists = ~ok,
                             ![n].pending =
                                 IF ok THEN @ ELSE [raises |-> TRUE, value |-> "none"]]
    /\ UNCHANGED <<storeVars, connVars, counselingVars, logVars, itemVars,
                   mergeVars, tool_call, dosingVars, collectorVars, orchVars>>

InitRun ==
    /\ interaction_cache = {}
    /\ disease_cache = {}
    /\ food_cache = {}
    /\ now = 0
    /\ available \in BOOLEAN
    /\ last_merge = NoMerge
    /\ cache_call = CallsNotRecorded
    /\ ConnIdle
    /\ CounselingIdle
    /\ LogIdle
    /\ ItemIdle
    /\ MergeIdle
    /\ ToolIdle
    /\ DosingIdle
    /\ CollectorsEmpty
    /\ OrchIdle

NextRun ==
    \/ \E n \in AgentNames, ok \in BOOLEAN : run_create_agent(n, ok)
    \/ \E n \in AgentNames, outcome \in TryOutcomes : run_try(n, outcome)
    \/ \E n \in AgentNames, ok \in BOOLEAN : run_finally(n, ok)

SpecRun == InitRun /\ [][NextRun]_vars

\* ---- the tool save_cache as the agent sees it
\* json.loads(analysis_json) parses the text or raises.
JsonValid(text) == Len(text) = 4 /\ text[1] = "{" /\ text[4] = "}"

\* The analysis_json an agent passes: a result, or text that is not JSON.
AnalysisJsons == {JsonDumps(x) : x \in Payloads} \cup {<<"{", "severity">>}

\* save_cache(cache_type, drug1, analysis_json, drug2): a cache service of
\* its own (connected: its _test_connection succeeded), json.loads, the save
\* the cache type selects (ok is false when a statement of it raises, which
\* the save catches), and {'saved': True}; the except branch is reached by
\* json.loads only.
save_cache_tool(cache_type, drug1, analysis_json, drug2, connected, ok) ==
    LET parsed == JsonValid(analysis_json)
        result == JsonLoads(analysis_json)
        stores == parsed /\ connected /\ ok
    IN  /\ interaction_cache' =
               IF stores /\ cache_type = "drug_drug" /\ drug2 # <<>>
               THEN MergeDD(DDKey(drug1, drug2), result)
               ELSE interaction_cache
        /\ disease_cache' =
               IF stores /\ cache_type = "drug_disease" /\ drug2 # <<>>
               THEN MergeDis(DisKey(drug1, drug2), result)
               ELSE disease_cache
        /\ food_cache' =
               IF stores /\ cache_type = "food"
               THEN MergeFood(FoodKey(drug1), result)
               ELSE food_cache
        /\ tool_call' =
               [tool |-> "save_cache", identifier |-> <<drug1, drug2>>,
                origin |-> cache_type,
                returned |-> IF parsed THEN [saved |-> TRUE]
                             ELSE [saved |-> FALSE, error |-> "json"]]
        /\ UNCHANGED <<now, available, last_merge, cache_call, connVars,
                       counselingVars, logVars, itemVars, mergeVars, agent_run,
                       dosingVars, collectorVars, orchVars>>

\* The cache types an agent passes: the three of the docstring and another.
CacheTypes == {"drug_drug", "drug_disease", "food", "drug_food"}

InitSaveTool ==
    /\ interaction_cache = {}
    /\ disease_cache = {}
    /\ food_cache = {}
    /\ now = 0
    /\ available \in BOOLEAN
    /\ last_merge = NoMerge
    /\ cache_call = CallsNotRecorded
    /\ ConnIdle
    /\ CounselingIdle
    /\ LogIdle
    /\ ItemIdle
    /\ MergeIdle
    /\ ToolIdle
    /\ DosingIdle
    /\ CollectorsEmpty
    /\ OrchIdle

NextSaveTool ==
    \/ /\ now = 0
       /\ \E d \in ClockSteps : AdvanceClock(d)
    \/ \E cache_type \in CacheTypes, drug2 \in {<<>>, NameXUp},
          analysis_json \in AnalysisJsons, connected, ok \in BOOLEAN :
           save_cache_tool(cache_type, NameBUp, analysis_json, drug2, connected, ok)

SpecSaveTool == InitSaveTool /\ [][NextSaveTool]_vars

\* ================================================================ claims

\* Two spellings of the same drug pair: same names up to letter case, in
\* either order.
SamePair(p, q) ==
    \/ Lower(p[1]) = Lower(q[1]) /\ Lower(p[2]) = Lower(q[2])
    \/ Lower(p[1]) = Lower(q[2]) /\ Lower(p[2]) = Lower(q[1])

\* The last MERGE was save_drug_drug's, fewer than TTL days ago, and the
\* store is available.
RecentSaveDD ==
    /\ last_merge.table = "interaction_cache"
    /\ available
    /\ DateDiffDay(last_merge.at, now) < CACHE_TTL_DAYS

\* C1: pair symmetry of the drug-drug cache.  In every reachable state
\* get_drug_drug(A, B) and get_drug_drug(B, A) return the same value, also
\* for spellings of A and B that differ in letter case only, and after
\* save_drug_drug(A, B, X), within the TTL and with the cache available,
\* get_drug_drug(B, A) returns X.
C1_PairSymmetry ==
    /\ \A p, q \in DrugPairs :
           SamePair(p, q) =>
               get_drug_drug_returns(p[1], p[2])
                   = get_drug_drug_returns(q[1], q[2])
    /\ RecentSaveDD =>
           get_drug_drug_returns(last_merge.args[2], last_merge.args[1])
               = {last_merge.result}

\* After save_drug_drug("b", "ab", X) and TTL - 1 days, a lookup of
\* ("ab", "B") is a hit.
C1_Witness ==
    /\ RecentSaveDD
    /\ last_merge.args = <<NameB, NameAB>>
    /\ now = last_merge.at + CACHE_TTL_DAYS - 1
    /\ get_drug_drug_returns(NameAB, NameBUp) = {last_merge.result}

\* C2: TTL expiry at read time.  For a record cached on day T, a lookup of
\* its key on day T + TTL - 1 returns the record's payload, and a lookup on
\* day T + TTL + 1 or later returns None although the record is in the table.
C2_TtlExpiry ==
    available =>
        /\ \A r \in interaction_cache :
              /\ now = r.cached_at + CACHE_TTL_DAYS - 1
                    => get_drug_drug_returns(r.drug1, r.drug2)
                           = {JsonLoads(r.full_result)}
              /\ now >= r.cached_at + CACHE_TTL_DAYS + 1
                    => get_drug_drug_returns(r.drug1, r.drug2) = {None}
        /\ \A r \in disease_cache :
              /\ now = r.cached_at + CACHE_TTL_DAYS - 1
                    => get_drug_disease_returns(r.drug, r.disease)
                           = {JsonLoads(r.full_result)}
              /\ now >= r.cached_at + CACHE_TTL_DAYS + 1
                    => get_drug_disease_returns(r.drug, r.disease) = {None}
        /\ \A r \in food_cache :
              /\ now = r.cached_at + CACHE_TTL_DAYS - 1
                    => get_food_returns(r.drug) = {JsonLoads(r.full_result)}
              /\ now >= r.cached_at + CACHE_TTL_DAYS + 1
                    => get_food_returns(r.drug) = {None}

\* A record is in the table one day past its TTL, and the store is available.
C2_Witness ==
    /\ available
    /\ \E r \in interaction_cache : now = r.cached_at + CACHE_TTL_DAYS + 1

\* Each table holds at most one row per key.
OneRowPerKey ==
    /\ \A r, q \in interaction_cache :
           r.drug1 = q.drug1 /\ r.drug2 = q.drug2 => r = q
    /\ \A r, q \in disease_cache :
           r.drug = q.drug /\ r.disease = q.disease => r = q
    /\ \A r, q \in food_cache : r.drug = q.drug => r = q

\* The rows of the key the last MERGE named, and the lookups of that key.
LastMergeRows ==
    CASE last_merge.table = "interaction_cache" ->
             DDRows(DDKey(last_merge.args[1], last_merge.args[2]))
      [] last_merge.table = "disease_cache" ->
             DisRows(DisKey(last_merge.args[1], last_merge.args[2]))
      [] last_merge.table = "food_cache" ->
             FoodRows(FoodKey(last_merge.args[1]))

LastMergeLookup ==
    CASE last_merge.table = "interaction_cache" ->
             get_drug_drug_returns(last_merge.args[1], last_merge.args[2])
      [] last_merge.table = "disease_cache" ->
             get_drug_disease_returns(last_merge.args[1], last_merge.args[2])
      [] last_merge.table = "food_cache" ->
             get_food_returns(last_merge.args[1])

\* C3: upsert idempotence.  Each cache table holds at most one record per
\* normalised key; a store on an existing key, live or expired, replaces the
\* payload and sets cached_at to the time of that store without adding a
\* record, and a following lookup returns the later payload.
C3_UpsertIdempotence ==
    /\ OneRowPerKey
    /\ last_merge.branch = "update" =>
           /\ Cardinality(LastMergeRows) = 1
           /\ \A r \in LastMergeRows :
                  /\ r.full_result = JsonDumps(last_merge.result)
                  /\ r.cached_at = last_merge.at
           /\ (available /\ DateDiffDay(last_merge.at, now) < CACHE_TTL_DAYS)
                  => LastMergeLookup = {last_merge.result}

\* The last MERGE overwrote a record on day TTL, when the record of day 0
\* had expired.
C3_Witness ==
    /\ last_merge.branch = "update"
    /\ last_merge.table = "interaction_cache"
    /\ last_merge.at = CACHE_TTL_DAYS
    /\ now = CACHE_TTL_DAYS

\* Every dosing result that a caller holds: the entries of the last /dosing
\* response and of the dosing collector.
DosingResultsHeld ==
    {dosing_response[i] : i \in DOMAIN dosing_response}
        \cup {dosing_results[k] : k \in DOMAIN dosing_results}

\* C4 (never-cache dosing): every dosing call has fetched the label and asked
\* the model (as many label fetches and model calls as dosing calls, repeated
\* calls for one drug included), the cache tables are as they were before the
\* calls (no lookup has touched a row, no write has added or changed one), and
\* every result returned carries from_cache = false, the result of a call whose
\* model request failed included.
C4_NeverCacheDosing ==
    /\ fda_label_fetches = dosing_calls
    /\ llm_calls = dosing_calls
    /\ interaction_cache = FilledInteractionCache
    /\ disease_cache = {}
    /\ food_cache = FilledFoodCache
    /\ last_merge = NoMerge
    /\ cache_call = CallsNotRecorded
    /\ ConnIdle
    /\ CounselingIdle
    /\ LogIdle
    /\ ItemIdle
    /\ MergeIdle
    /\ ToolIdle
    /\ \A r \in DosingResultsHeld :
           "from_cache" \in DOMAIN r /\ r["from_cache"] = FALSE

\* Two calls for the same drug have run, the second with a failed model request.
C4_Witness ==
    /\ dosing_calls = 2
    /\ fda_label_fetches = 2
    /\ llm_calls = 2
    /\ Len(dosing_response) = 1
    /\ "error" \notin DOMAIN dosing_response[1]
    /\ Lower(NameB) \in DOMAIN dosing_results
    /\ "error" \in DOMAIN dosing_results[Lower(NameB)]
    /\ dosing_results[Lower(NameB)]["from_cache"] = FALSE

\* ---- the merged result against the collectors and the agents' arrays
Range(array) == {array[i] : i \in DOMAIN array}

\* The elements of an array that are about the named entity.
EntriesFor(array, key, name) ==
    {e \in Range(array) : key \in DOMAIN e /\ Lower(e[key]) = Lower(name)}

\* The Counseling agent's own array under a key.
AgentArray(key) == Get(counseling_result, key, <<>>)

\* The merged array holds the collector's entry for every entity of the scope
\* that the collector has and the agent's own array leaves out.
CollectorEntryMerged(collector, scope, key, array_key) ==
    \A i \in DOMAIN scope :
        (/\ Lower(scope[i]) \in DOMAIN collector
         /\ EntriesFor(AgentArray(array_key), key, scope[i]) = {})
            => collector[Lower(scope[i])] \in Range(final[array_key])

\* C5 (collector precedence): when analyze has returned, each of
\* drug_counseling, condition_counseling and dosing_recommendations of the
\* merged result contains the collector's entry for every entity of the scope
\* that the collector holds and the Counseling agent's own array omits.
C5_CollectorPrecedence ==
    pc = "Done" =>
        /\ CollectorEntryMerged(drug_counseling_results, medications,
                                "drug", "drug_counseling")
        /\ CollectorEntryMerged(condition_counseling_results, diseases,
                                "condition", "condition_counseling")
        /\ CollectorEntryMerged(dosing_results, medications,
                                "drug", "dosing_recommendations")

\* analyze has returned; the agent's arrays leave out the second drug's
\* counseling, the condition and the first drug's dosing, the collectors hold
\* all three, and the merged arrays carry the collectors' entries.
C5_Witness ==
    /\ pc = "Done"
    /\ Len(AgentArray("drug_counseling")) = 1
    /\ EntriesFor(AgentArray("drug_counseling"), "drug", medications[2]) = {}
    /\ AgentArray("condition_counseling") = <<>>
    /\ "condition_counseling" \in DOMAIN counseling_result
    /\ Len(AgentArray("dosing_recommendations")) = 1
    /\ EntriesFor(AgentArray("dosing_recommendations"), "drug", medications[1]) = {}
    /\ Lower(medications[2]) \in DOMAIN drug_counseling_results
    /\ Lower(diseases[1]) \in DOMAIN condition_counseling_results
    /\ Lower(medications[1]) \in DOMAIN dosing_results
    /\ DrugCounselingResult(NameAB) \in Range(final.drug_counseling)
    /\ Len(final.condition_counseling) = 1
    /\ dosing_results[Lower(medications[1])] \in Range(final.dosing_recommendations)

\* The merged array holds the agent's entry for every entity of the scope that
\* the collector lacks and the agent's own array has.
AgentEntryMerged(collector, scope, key, array_key) ==
    \A i \in DOMAIN scope :
        Lower(scope[i]) \notin DOMAIN collector
            => EntriesFor(AgentArray(array_key), key, scope[i])
                   \subseteq Range(final[array_key])

\* C6 (per-identifier fallback): when analyze has returned, each of the three
\* merged arrays contains the Counseling agent's entry for every entity of the
\* scope that has no collector entry and is in the agent's array, whatever
\* else the collector holds.
C6_PerIdentifierFallback ==
    pc = "Done" =>
        /\ AgentEntryMerged(drug_counseling_results, medications,
                            "drug", "drug_counseling")
        /\ AgentEntryMerged(condition_counseling_results, diseases,
                            "condition", "condition_counseling")
        /\ AgentEntryMerged(dosing_results, medications,
                            "drug", "dosing_recommendations")

\* The run has saved the scope's drug pair to interaction_cache.
PairResolved ==
    \E r \in interaction_cache :
        <<r.drug1, r.drug2>> = DDKey(medications[1], medications[2])

C8_AggregateRecomputation ==
    pc = "Done" =>
        /\ final.risk_summary.severe_count =
               CountEqual(final.drug_drug, "severity", "severe")
        /\ final.risk_summary.moderate_count =
               CountEqual(final.drug_drug, "severity", "moderate")
        /\ final.risk_summary.contraindicated_count =
               CountEqual(final.drug_disease, "contraindicated", TRUE)
        /\ final.risk_summary.dosing_adjustments_required =
               CountEqual(final.dosing_recommendations, "adjustment_required", TRUE)

\* analyze has returned with counts that differ from the ones the Safety and
\* Disease agents reported for their own arrays.
C8_Witness ==
    /\ pc = "Done"
    /\ "risk_summary" \in DOMAIN safety_result
    /\ safety_result.risk_summary.severe_count = 0
    /\ final.risk_summary.severe_count = 1
    /\ "risk_summary" \in DOMAIN disease_result
    /\ disease_result.risk_summary.contraindicated_count = 1
    /\ final.risk_summary.contraindicated_count = 2
    /\ "risk_summary" \in DOMAIN counseling_result
    /\ counseling_result.risk_summary.dosing_adjustments_required = 2
    /\ final.risk_summary.dosing_adjustments_required = 1

\* C9 (phase barrier): whenever the Counseling agent's run has begun (its
\* agent is being created, its tools are being called, it has ended), and
\* whenever analyze is past Phase 1, both the Safety and the Disease run have
\* ended, by returning or by raising.
C9_PhaseBarrier ==
    (\/ run_state["counseling"] # "idle"
     \/ pc \in {"Phase1Joined", "Phase2Running", "Merging", "Done"})
        => \A w \in Phase1Workers : run_state[w] \in {"returned", "raised"}

\* The Counseling run is calling tools after a Safety run that failed and a
\* Disease run that answered.
C9_Witness ==
    /\ pc = "Phase2Running"
    /\ run_state["counseling"] = "running"
    /\ Lower(medications[1]) \in DOMAIN drug_counseling_results
    /\ run_state["safety"] = "returned"
    /\ safety_result = EmptyDict
    /\ run_state["disease"] = "returned"
    /\ disease_result # EmptyDict

\* C10 as the claim has it (analyze never throws): no exception leaves
\* analyze.
C10_AnalyzeNeverThrows == pc # "Raised"

\* ---- the end-to-end scenario
\* An array has one element for each entity of the scope and nothing else.
OnePerEntity(array, key, scope) ==
    /\ Len(array) = Len(scope)
    /\ \A i \in DOMAIN scope : EntriesFor(array, key, scope[i]) # {}

\* A counseling tool has run for every entity of the scope, or for none while
\* the agent's own array has one element for each.
CounselingResolved(collector, scope, key, array_key) ==
    \/ \A i \in DOMAIN scope : Lower(scope[i]) \in DOMAIN collector
    \/ /\ DOMAIN collector = {}
       /\ OnePerEntity(AgentArray(array_key), key, scope)

\* Every agent has resolved the whole of its scope: the drug pair and a food
\* check per drug, every drug with the condition, counseling for every drug
\* and for the condition.
WholeScopeResolved ==
    /\ Len(Get(safety_result, "drug_drug", <<>>)) = n_ddi_pairs
    /\ \A e \in Range(Get(safety_result, "drug_drug", <<>>)) :
           DDKey(e.drug1, e.drug2) = DDKey(medications[1], medications[2])
    /\ OnePerEntity(Get(safety_result, "drug_food", <<>>), "drug", medications)
    /\ OnePerEntity(Get(disease_result, "drug_disease", <<>>), "drug", medications)
    /\ CounselingResolved(drug_counseling_results, medications,
                          "drug", "drug_counseling")
    /\ CounselingResolved(condition_counseling_results, diseases,
                          "condition", "condition_counseling")

\* C11 (end-to-end scenario): for two medications and one condition analyze
\* computes 1 drug pair, 2 food checks, 2 drug-condition pairs, 2 drugs and 1
\* condition; and when analyze has returned after every agent resolved the
\* whole of its scope, the merged result has exactly 1 drug_drug entry, 2
\* drug_disease entries, 2 drug_counseling entries and 1 condition_counseling
\* entry.
C11_EndToEndScenario ==
    /\ n_ddi_pairs = 1
    /\ n_meds = 2
    /\ n_dd_pairs = 2
    /\ n_diseases = 1
    /\ (pc = "Done" /\ WholeScopeResolved) =>
           /\ Len(final.drug_drug) = 1
           /\ Len(final.drug_disease) = 2
           /\ Len(final.drug_counseling) = 2
           /\ Len(final.condition_counseling) = 1

\* analyze has returned after complete answers of the Safety and Disease
\* agents and counseling tool calls for both drugs and the condition, while
\* the Counseling agent's own answer is complete too.
C11_Witness ==
    /\ pc = "Done"
    /\ WholeScopeResolved
    /\ DOMAIN drug_counseling_results = {Lower(medications[1]), Lower(medications[2])}
    /\ DOMAIN condition_counseling_results = {Lower(diseases[1])}
    /\ Len(AgentArray("drug_counseling")) = 2
    /\ Len(final.drug_drug) = 1
    /\ Len(final.drug_disease) = 2
    /\ Len(final.drug_counseling) = 2
    /\ Len(final.condition_counseling) = 1

\* ---- the key of the drug-disease cache
\* The last MERGE was save_drug_disease's, fewer than TTL days ago, and the
\* store is available.
RecentSaveDisease ==
    /\ last_merge.table = "disease_cache"
    /\ available
    /\ DateDiffDay(last_merge.at, now) < CACHE_TTL_DAYS

MergedCollectorArrays ==
    Range(final.drug_counseling) \cup Range(final.condition_counseling)
        \cup Range(final.dosing_recommendations)

\* Every entry the collectors hold.
CollectorEntries ==
    {dosing_results[k] : k \in DOMAIN dosing_results}
        \cup {drug_counseling_results[k] : k \in DOMAIN drug_counseling_results}
        \cup {condition_counseling_results[k] :
                  k \in DOMAIN condition_counseling_results}

\* C13 (collector reset per run): when analyze has submitted its Phase 1
\* agents and none has begun, the three collectors are empty; from then on the
\* collectors hold no entry that an earlier analysis recorded, and when
\* analyze has returned its merged arrays contain no such entry.
C13_CollectorReset ==
    /\ (pc = "Phase1Running" /\ \A w \in Phase1Workers : run_state[w] = "submitted")
           => CollectorsEmpty
    /\ pc # "Init" =>
           CollectorEntries \cap {LeftOverDosing, LeftOverDrugCounseling} = {}
    /\ pc = "Done" =>
           MergedCollectorArrays \cap {LeftOverDosing, LeftOverDrugCounseling} = {}

\* analyze has returned after an earlier analysis (its dosing call is the one
\* counted) had left entries: the dosing collector is empty, the drug
\* counseling collector holds this analysis' entry for the same drug, and the
\* merged array carries that one.
C13_Witness ==
    /\ pc = "Done"
    /\ dosing_calls = 1
    /\ dosing_results = EmptyDict
    /\ Lower(NameB) \in DOMAIN drug_counseling_results
    /\ drug_counseling_results[Lower(NameB)].patient_context = ThisPatient
    /\ final.drug_counseling = <<drug_counseling_results[Lower(NameB)]>>
    /\ final.dosing_recommendations = AgentArray("dosing_recommendations")

\* C14 as the claim has it (run isolation under overlapping calls): when
\* analyze has returned, every collector entry in its merged drug_counseling
\* array was recorded for its own patient, and at no time after a dosing tool
\* call of this analysis has the dosing collector lost what the call recorded.
C14_RunIsolation ==
    /\ pc = "Done" =>
           \A e \in Range(final.drug_counseling) :
               "patient_context" \in DOMAIN e => e.patient_context = ThisPatient
    /\ (pc # "Init" /\ dosing_calls > 0) => DOMAIN dosing_results # {}

\* What the last call of the cache store gave its caller: nothing raised; a
\* miss (a store returns None as well) when the store is unavailable, with
\* _conn() never reached; a miss when a statement failed.
CacheCallDegraded ==
    /\ ~cache_call.raised
    /\ (cache_call.op # "none" /\ ~cache_call.available) =>
           cache_call.returned = None /\ ~cache_call.connected
    /\ cache_call.failed => cache_call.returned = None

\* C15: the cache store never raises to its caller. While the store is
\* unavailable every lookup is a miss and every store a no-op that does not
\* reach the backing store; when a statement of an operation fails, the
\* lookup is a miss, the store returns normally, and no table has changed.
C15_CacheNeverRaises ==
    /\ []CacheCallDegraded
    /\ [][(~available \/ cache_call'.failed) =>
              UNCHANGED <<interaction_cache, disease_cache, food_cache>>]_vars

\* A lookup failed on a statement while a live record for its key was in
\* the table, and the caller got a miss.
C15_Witness ==
    /\ cache_call.op = "get_drug_drug"
    /\ cache_call.failed
    /\ cache_call.live
    /\ cache_call.returned = None
    /\ ~cache_call.raised

\* C16: thread isolation of handles. A connection get_connection has
\* returned has been returned to the thread that created it and to no
\* other, and the connection a thread sees in its slot is one it created
\* itself, so no two threads hold the same connection.
C16_ThreadIsolation ==
    /\ \A i \in DOMAIN handles :
           handles[i].returned_to = {handles[i].created_by}
    /\ \A t \in Threads :
           SlotValue(t) # None => handles[SlotValue(t).id].created_by = t
    /\ \A t, u \in Threads :
           (t # u /\ SlotValue(t) # None) => SlotValue(t) # SlotValue(u)

\* Two threads hold a live connection each, and the last call was answered
\* with the caller's existing connection.
C16_Witness ==
    /\ \A t \in Threads :
           SlotValue(t) # None /\ handles[SlotValue(t).id].alive
    /\ conn_call.returned # None
    /\ ~conn_call.created

C18_CacheOriginAnnotation ==
    counseling_call.op # "none" =>
        (counseling_call.returned.from_cache <=> counseling_call.hit)

\* The key columns of a row of each table.
DDRowKey(r) == <<r.drug1, r.drug2>>

DisRowKey(r) == <<r.drug, r.disease>>

FoodRowKey(r) == <<r.drug>>

\* This step is a lookup op that returned a record.
HitStep(op) ==
    /\ cache_call'.op = op
    /\ cache_call'.returned # None
    /\ now' = now
    /\ available' = available

\* From table before to table after, the record with key k has its
\* access_count one higher and is otherwise as before, and every other
\* record is as before.
OnlyAccessBumped(before, after, RowKey(_), k) ==
    /\ \E r \in before : RowKey(r) = k
    /\ after = {IF RowKey(r) = k THEN [r EXCEPT !.access_count = @ + 1] ELSE r :
                    r \in before}

\* The keys of a table with the time each was cached.
CachedAt(table, RowKey(_)) == {<<RowKey(r), r.cached_at>> : r \in table}

\* This step is of a store operation.
StoreStep == cache_call'.op \in {"save_drug_drug", "save_drug_disease", "save_food"}

\* C19: a lookup that is a live hit raises the access count of the record it
\* read by exactly one and leaves that record's cached_at and payload, and
\* every other record, as they were; a step that changes any record's
\* cached_at is a store.
C19_ReadEffect ==
    /\ [][HitStep("get_drug_drug") =>
              /\ OnlyAccessBumped(interaction_cache, interaction_cache',
                                  DDRowKey, cache_call'.key)
              /\ UNCHANGED <<disease_cache, food_cache>>]_vars
    /\ [][HitStep("get_drug_disease") =>
              /\ OnlyAccessBumped(disease_cache, disease_cache',
                                  DisRowKey, cache_call'.key)
              /\ UNCHANGED <<interaction_cache, food_cache>>]_vars
    /\ [][HitStep("get_food") =>
              /\ OnlyAccessBumped(food_cache, food_cache',
                                  FoodRowKey, cache_call'.key)
              /\ UNCHANGED <<interaction_cache, disease_cache>>]_vars
    /\ [][(\/ CachedAt(interaction_cache, DDRowKey)'
                  # CachedAt(interaction_cache, DDRowKey)
           \/ CachedAt(disease_cache, DisRowKey)'
                  # CachedAt(disease_cache, DisRowKey)
           \/ CachedAt(food_cache, FoodRowKey)'
                  # CachedAt(food_cache, FoodRowKey)) => StoreStep]_vars

\* A lookup has just hit a record cached on an earlier day, whose access
\* count is now 2, while another record of the table has not been read.
C19_Witness ==
    /\ cache_call.op = "get_drug_drug"
    /\ cache_call.returned # None
    /\ \E r \in interaction_cache :
           /\ DDRowKey(r) = cache_call.key
           /\ r.access_count = 2
           /\ r.cached_at < now
    /\ \E r \in interaction_cache :
           DDRowKey(r) # cache_call.key /\ r.access_count = 1

\* The returned drug-drug array has an entry of this severity.
HasDrugDrug(severity) ==
    \E e \in Range(final.drug_drug) :
        "severity" \in DOMAIN e /\ e.severity = severity

\* The returned drug-disease array has a contraindicated entry.
HasContraindicated ==
    \E e \in Range(final.drug_disease) :
        "contraindicated" \in DOMAIN e /\ e.contraindicated = TRUE

\* No worker contributed anything: empty results, empty collectors.
NothingContributed ==
    /\ safety_result = EmptyDict
    /\ disease_result = EmptyDict
    /\ counseling_result = EmptyDict
    /\ CollectorsEmpty

\* C20: the returned level is HIGH exactly when the returned arrays hold a
\* severe drug-drug entry or a contraindicated drug-disease entry, MODERATE
\* exactly when they hold neither but a moderate drug-drug entry, LOW
\* otherwise; a run whose workers contributed nothing returns empty arrays,
\* counts of 0 and LOW.
C20_RiskLevelDerivation ==
    pc = "Done" =>
        LET high == HasDrugDrug("severe") \/ HasContraindicated
            level == final.risk_summary.level
        IN  /\ level = "HIGH" <=> high
            /\ level = "MODERATE" <=> (~high /\ HasDrugDrug("moderate"))
            /\ level = "LOW" <=> (~high /\ ~HasDrugDrug("moderate"))
            /\ NothingContributed =>
                   /\ final.drug_drug = <<>>
                   /\ final.drug_disease = <<>>
                   /\ final.drug_food = <<>>
                   /\ final.drug_counseling = <<>>
                   /\ final.condition_counseling = <<>>
                   /\ final.dosing_recommendations = <<>>
                   /\ final.risk_summary =
                          [level |-> "LOW", severe_count |-> 0,
                           moderate_count |-> 0, contraindicated_count |-> 0,
                           dosing_adjustments_required |-> 0]

\* A run returned HIGH for a contraindication alone: its drug-drug array
\* has moderate entries and no severe one.
C20_Witness ==
    /\ pc = "Done"
    /\ final.risk_summary.level = "HIGH"
    /\ HasContraindicated
    /\ HasDrugDrug("moderate")
    /\ ~HasDrugDrug("severe")

\* The array of the returned analysis that a Phase 1 worker's answer feeds.
Phase1Array(w) == IF w = "safety" THEN "drug_drug" ELSE "drug_disease"

\* analyze has ended: it returned, or an exception left it.
AnalyzeEnded == pc \in {"Done", "Raised"}

\* C21: sibling independence in Phase 1. When the call is over and one of
\* the Safety and Disease workers has failed with an exception, the other
\* has run to its end, and what it returned is in the merged result.
C21_SiblingIndependence ==
    \A w \in Phase1Workers : \A s \in Phase1Workers \ {w} :
        (AnalyzeEnded /\ run_state[s] = "raised") =>
            /\ future_done(w)
            /\ run_state[w] = "returned" =>
                   /\ pc = "Done"
                   /\ final[Phase1Array(w)] =
                          Get(run_value[w], Phase1Array(w), <<>>)

\* The payload a failed inference call leaves for its item.
ErrorPayload(fn, result) ==
    IF fn = "get_dosing_for_all_drugs" THEN "error" \in DOMAIN result
    ELSE result.patient_summary = "Unable to generate counseling"

\* C22: per-item failure isolation. A batch call that has returned raised
\* nothing and returned one result per item of its list, in list order; the
\* result of an item whose inference call failed is the error payload, and
\* the result of every item whose own call was made and did not fail is the
\* model's answer for it, whatever happened to the items before it.
C22_PerItemIsolation ==
    (batch_results.fn # "none" /\ ~batch_results.running) =>
        /\ ~batch_results.raised
        /\ Len(batch_results.results) = Len(batch_results.scope)
        /\ Len(batch_results.items) = Len(batch_results.scope)
        /\ \A i \in DOMAIN batch_results.scope :
               LET item == batch_results.items[i]
                   result == batch_results.results[i]
               IN  /\ item.failed => ErrorPayload(batch_results.fn, result)
                   /\ (~item.failed /\ ~item.hit) =>
                          ~ErrorPayload(batch_results.fn, result)
                   /\ (batch_results.fn = "get_dosing_for_all_drugs"
                           /\ ~item.failed) =>
                          result.drug = batch_results.scope[i]

\* A dosing batch of two whose first item lost both its label and its
\* inference call, and whose second item has its own answer.
C22_Witness ==
    /\ batch_results.fn = "get_dosing_for_all_drugs"
    /\ Len(batch_results.scope) = 2
    /\ batch_results.items[1].failed
    /\ ~batch_results.items[1].label_found
    /\ ~batch_results.items[2].failed
    /\ "error" \in DOMAIN batch_results.results[1]
    /\ batch_results.results[2].drug = batch_results.scope[2]

\* C23, for the session the orchestrator runs: when analyze has returned its
\* result, the session has put exactly one row in the analysis log.
C23_OneLogRowPerSession ==
    pc = "Done" => Len(analysis_log) = 1

\* The run's states in the order of the state machine.
RunOrder == <<"Init", "Phase1Running", "Phase1Joined", "Phase2Running",
              "Merging", "Done">>

\* C24: a call of analyze changes its state only from one state of the state
\* machine Init, Phase1Running, Phase1Joined, Phase2Running, Merging, Done
\* to the next one, so that it skips none, repeats none and ends nowhere but
\* in Done; and a worker is launched only once.
C24_RunStateMachine ==
    [][/\ pc' # pc =>
              \E i \in 1..(Len(RunOrder) - 1) :
                  pc = RunOrder[i] /\ pc' = RunOrder[i + 1]
       /\ \A w \in Workers :
              (run_state'[w] = "submitted" /\ run_state[w] # "submitted") =>
                  run_state[w] = "idle" \/ pc = "Init"]_vars

\* The lookups of the cache store.
LookupOps == {"get_drug_drug", "get_drug_disease", "get_food"}

\* C25: whatever the backing store did when the cache store was constructed,
\* a call made while the backing store is reachable goes to the backing
\* store, and a lookup of a live record is then a hit.
C25_LazyReprobe ==
    cache_call.reachable =>
        /\ cache_call.connected
        /\ (cache_call.op \in LookupOps /\ cache_call.live) =>
               cache_call.returned # None

\* The keys a table holds.
KeysOf(table, RowKey(_)) == {RowKey(r) : r \in table}

\* This step is a lookup that returned nothing.
MissStep == cache_call'.op \in LookupOps /\ cache_call'.returned = None

\* C26: no step of the cache store removes a key from a table; a lookup that
\* is not a hit, as that of an expired record, leaves the three tables as
\* they were; and a store keeps the number of records when its key was
\* already there, so that the record is overwritten in place.
C26_NoDeletion ==
    [][/\ KeysOf(interaction_cache, DDRowKey) \subseteq
              KeysOf(interaction_cache', DDRowKey)
       /\ KeysOf(disease_cache, DisRowKey) \subseteq
              KeysOf(disease_cache', DisRowKey)
       /\ KeysOf(food_cache, FoodRowKey) \subseteq KeysOf(food_cache', FoodRowKey)
       /\ MissStep =>
              UNCHANGED <<interaction_cache, disease_cache, food_cache>>
       /\ (StoreStep /\ cache_call'.key \in KeysOf(interaction_cache, DDRowKey)) =>
              Cardinality(interaction_cache') = Cardinality(interaction_cache)
       /\ (StoreStep /\ cache_call'.key \in KeysOf(disease_cache, DisRowKey)) =>
              Cardinality(disease_cache') = Cardinality(disease_cache)
       /\ (StoreStep /\ cache_call'.key \in KeysOf(food_cache, FoodRowKey)) =>
              Cardinality(food_cache') = Cardinality(food_cache)]_vars

\* An expired drug-drug record has been looked up, which was a miss, while
\* another pair's record is in the table too.
C26_Witness ==
    /\ cache_call.op = "get_drug_drug"
    /\ cache_call.connected /\ ~cache_call.failed
    /\ cache_call.returned = None
    /\ DDRows(cache_call.key) # {}
    /\ \A r \in DDRows(cache_call.key) : ~IsLive(r.cached_at)
    /\ Cardinality(KeysOf(interaction_cache, DDRowKey)) = 2

\* The pooled connections thread t created: those of its making a slot holds.
PooledOf(t) ==
    {i \in DOMAIN handles :
        /\ handles[i].created_by = t
        /\ \E u \in Threads : thread_local[u] # None /\ thread_local[u].id = i}

\* This step is a call of get_connection whose probe, if it made one, ran on
\* a connection that was up: a first call or a reuse.
ReuseOrFirstStep(t) ==
    /\ conn_call' # conn_call
    /\ conn_call'.thread = t
    /\ thread_local[t] # None => handles[thread_local[t].id].alive

\* What a call that finds a live connection in its thread's slot does: it
\* returns that connection, creates none and leaves the slot as it was.
Reused(t) ==
    thread_local[t] # None =>
        /\ conn_call'.returned = thread_local[t]
        /\ ~conn_call'.raised
        /\ Len(handles') = Len(handles)
        /\ thread_local' = thread_local

\* What a call that finds its thread's slot empty does when it connects: it
\* creates exactly one connection, puts it in the slot and returns it.
CreatedOne(t) ==
    /\ Len(handles') = Len(handles) + 1
    /\ conn_call'.returned = Handle(Len(handles'))
    /\ thread_local' = [thread_local EXCEPT ![t] = conn_call'.returned]

\* C27 as stated: a call by a thread with an empty slot creates one
\* connection; a call whose probe succeeds returns the thread's connection
\* and creates none; a thread has at most one pooled connection.
C27_LazyCreationAndReuse ==
    /\ [][\A t \in Threads :
              ReuseOrFirstStep(t) =>
                  /\ Reused(t)
                  /\ thread_local[t] = None => CreatedOne(t)]_vars
    /\ [](\A t \in Threads : Cardinality(PooledOf(t)) <= 1)

\* C27, amended: a call by a thread with an empty slot creates one
\* connection when pyodbc.connect succeeds, and when it fails the call
\* raises, creates none and leaves the slot empty; a call whose probe
\* succeeds returns the thread's connection and creates none; a thread has
\* at most one pooled connection.
C27_LazyCreationUnlessConnectFails ==
    /\ [][\A t \in Threads :
              ReuseOrFirstStep(t) =>
                  /\ Reused(t)
                  /\ (thread_local[t] = None /\ ~conn_call'.raised) => CreatedOne(t)
                  /\ (thread_local[t] = None /\ conn_call'.raised) =>
                         /\ handles' = handles
                         /\ thread_local' = thread_local
                         /\ conn_call'.returned = None]_vars
    /\ [](\A t \in Threads : Cardinality(PooledOf(t)) <= 1)

\* A thread that has a connection of its own has called again and got the
\* same one, while the other thread has one too.
C27_Witness ==
    /\ conn_call.thread \in Threads
    /\ ~conn_call.created /\ ~conn_call.raised /\ ~conn_call.probe_failed
    /\ conn_call.returned = thread_local[conn_call.thread]
    /\ \A t \in Threads : Cardinality(PooledOf(t)) = 1
    /\ Len(handles) = NThreads

\* C28: while the Safety and the Disease worker run in parallel, the objects
\* their steps change besides their own run are the cache tables only: the
\* module-level collectors, which every run of the process shares, stay as
\* they are until Phase 1 is over.
C28_OnlyCacheShared ==
    [][pc = "Phase1Running" =>
           UNCHANGED <<dosing_results, drug_counseling_results,
                       condition_counseling_results>>]_vars

\* The kinds of the calls made for the last item, in the order of the calls.
ItemKinds == [i \in DOMAIN item_steps.steps |-> item_steps.steps[i].kind]

\* The place of a kind of call in the order lookup, evidence, inference,
\* cache write-back.
KindRank(kind) ==
    CASE kind = "lookup" -> 1
      [] kind = "evidence" -> 2
      [] kind = "inference" -> 3
      [] kind = "store" -> 4

\* C29: an item whose lookup was a hit has had its lookup and no other call;
\* an item whose lookup was a miss has had, after the lookup, evidence, then
\* inference, then the cache write-back, each of them and in this order.
C29_HitEndsItem ==
    item_steps # NoItem =>
        /\ ItemKinds[1] = "lookup"
        /\ item_steps.hit => ItemKinds = <<"lookup">>
        /\ ~item_steps.hit =>
               /\ {ItemKinds[i] : i \in DOMAIN ItemKinds} =
                      {"lookup", "evidence", "inference", "store"}
               /\ \A i, j \in DOMAIN ItemKinds :
                      i < j => KindRank(ItemKinds[i]) <= KindRank(ItemKinds[j])
               /\ \A i \in DOMAIN ItemKinds : i > 1 => ItemKinds[i] # "lookup"

\* The places of the scope list whose identifier the collector holds.
ScopePlacesHeld ==
    {i \in DOMAIN merge_call.scope :
        Lower(merge_call.scope[i]) \in DOMAIN merge_call.collector}

\* C30: an array built from a collector that is not empty has one entry for
\* each place of the scope list whose identifier the collector holds, and
\* these entries in the order of the scope list: none for an identifier the
\* collector lacks, none for a key of the collector that the scope list does
\* not name.
C30_OrderAndOmission ==
    (merge_call.built /\ DOMAIN merge_call.collector # {}) =>
        /\ Len(merge_call.array) = Cardinality(ScopePlacesHeld)
        /\ \E f \in [DOMAIN merge_call.array -> ScopePlacesHeld] :
               /\ \A i, j \in DOMAIN f : i < j => f[i] < f[j]
               /\ \A i \in DOMAIN f :
                      merge_call.array[i] =
                          merge_call.collector[Lower(merge_call.scope[f[i]])]
        /\ \A k \in DOMAIN merge_call.collector :
               (\A i \in DOMAIN merge_call.scope : Lower(merge_call.scope[i]) # k)
                   => \A i \in DOMAIN merge_call.array :
                          merge_call.array[i] # merge_call.collector[k]

\* An array of two different entries was built from a scope list of three
\* identifiers, one of which the collector lacks, and from a collector with a
\* key the scope list does not name.
C30_Witness ==
    /\ merge_call.built
    /\ Len(merge_call.scope) = 3
    /\ Len(merge_call.array) = 2
    /\ merge_call.array[1] # merge_call.array[2]
    /\ Cardinality(ScopePlacesHeld) = 2
    /\ NameZ \in DOMAIN merge_call.collector

\* The collector a tool writes.
CollectorOf(tool) ==
    CASE tool = "get_drug_counseling" -> drug_counseling_results
      [] tool = "get_condition_counseling" -> condition_counseling_results
      [] tool = "get_dosing_recommendation" -> dosing_results

\* C31: when a call of a collector-writing tool has returned, its collector
\* holds under the lower-cased identifier the very result the call returned,
\* be it from the cache, fresh or the error default, and so in place of what
\* an earlier call for the identifier had left there.
C31_UnconditionalCollectorWrite ==
    tool_call # NoToolCall =>
        /\ Lower(tool_call.identifier) \in DOMAIN CollectorOf(tool_call.tool)
        /\ CollectorOf(tool_call.tool)[Lower(tool_call.identifier)] =
               tool_call.returned

\* The drug counseling tool has answered from the cache, the dosing tool has
\* recorded an error default for the same drug, and the condition tool has
\* recorded a result too.
C31_Witness ==
    /\ tool_call.tool = "get_drug_counseling"
    /\ tool_call.origin = "cache"
    /\ tool_call.identifier = NameBUp
    /\ Lower(NameBUp) \in DOMAIN dosing_results
    /\ "error" \in DOMAIN dosing_results[Lower(NameBUp)]
    /\ condition_counseling_results # EmptyDict

\* This step is a call of get_drug_counseling.
CounselingCallStep ==
    \/ counseling_call' # counseling_call
    \/ drug_counseling_cache' # drug_counseling_cache

\* The payloads stored under key k less than 30 days ago.
StoredWithin30Days(k) ==
    {JsonLoadsCounseling(r.full_result) :
        r \in {x \in drug_counseling_cache :
                  x.cache_key = k /\ now - x.cached_at < 30}}

\* After this step the table holds under key k, cached now, the payload the
\* call returned.
StoredNow(k) ==
    \E r \in drug_counseling_cache' :
        /\ r.cache_key = k
        /\ r.cached_at = now
        /\ JsonLoadsCounseling(r.full_result) = counseling_call'.returned

\* C32 as stated: a call that computes a result leaves it stored under its
\* key, and a call for a key with a payload stored less than 30 days ago
\* asks no model and returns that payload, whatever else the request holds.
C32_HitOnRepeat ==
    [][CounselingCallStep =>
           /\ counseling_call'.llm_called => StoredNow(counseling_call'.key)
           /\ StoredWithin30Days(counseling_call'.key) # {} =>
                  /\ counseling_call'.hit
                  /\ ~counseling_call'.llm_called
                  /\ counseling_call'.returned \in
                         StoredWithin30Days(counseling_call'.key)]_vars

\* C32, amended: a call that computes a result and whose save succeeds
\* leaves it stored under its key; a call for a key with a payload stored
\* less than 30 days ago, whose read succeeds, asks no model and returns
\* that payload; and a stored payload changes only when a call for its key
\* stores anew.
C32_HitOnRepeatWhenStored ==
    [][/\ CounselingCallStep =>
              /\ (counseling_call'.llm_called /\ counseling_call'.saved) =>
                     StoredNow(counseling_call'.key)
              /\ (StoredWithin30Days(counseling_call'.key) # {} /\
                  counseling_call'.read_ok) =>
                     /\ counseling_call'.hit
                     /\ ~counseling_call'.llm_called
                     /\ counseling_call'.returned \in
                            StoredWithin30Days(counseling_call'.key)
       /\ \A r \in drug_counseling_cache :
              \/ \E x \in drug_counseling_cache' :
                     /\ x.cache_key = r.cache_key
                     /\ x.full_result = r.full_result
                     /\ x.cached_at = r.cached_at
              \/ /\ counseling_call'.key = r.cache_key
                 /\ counseling_call'.saved]_vars

\* A request has been answered from the cache, on day 29, with what a
\* request with the same key stored on day 0.
C32_Witness ==
    /\ counseling_call.hit
    /\ counseling_call.read_ok
    /\ now = CACHE_TTL_DAYS - 1
    /\ \E r \in drug_counseling_cache :
           /\ r.cache_key = counseling_call.key
           /\ r.cached_at = 0
           /\ r.access_count = 2
\* C33: the risk level log_analysis writes for a session is the risk level
\* the response of that session carries in its risk summary.
C33_LoggedRiskIsReturnedRisk ==
    analyze_response.logged =>
        LET row == analysis_log[Len(analysis_log)]
        IN  /\ row.session_id = analyze_response.session_id
            /\ row.risk_level = analyze_response.level

\* This step is a get_drug_drug on key k that returned the stored payload.
LiveHitStep(k) ==
    /\ cache_call' # cache_call \/ interaction_cache' # interaction_cache
    /\ cache_call'.op = "get_drug_drug"
    /\ cache_call'.key = k
    /\ cache_call'.returned # None

\* C34: a record of interaction_cache is inserted with access_count 1; every
\* step leaves the record in the table and its access_count as it was,
\* except a live hit on its key, which adds one; a store that overwrites
\* the record does not touch the counter.
C34_AccessCountCountsHits ==
    [][/\ \A r \in interaction_cache :
              \E q \in interaction_cache' :
                  /\ DDRowKey(q) = DDRowKey(r)
                  /\ q.access_count =
                         r.access_count + (IF LiveHitStep(DDRowKey(r)) THEN 1 ELSE 0)
       /\ \A q \in interaction_cache' :
              (\A r \in interaction_cache : DDRowKey(r) # DDRowKey(q)) =>
                  q.access_count = 1]_vars

\* A record that was hit once has just been overwritten by a store, days
\* after its insertion, and still counts 2.
C34_Witness ==
    /\ cache_call.op = "save_drug_drug"
    /\ cache_call.available /\ ~cache_call.failed
    /\ now > 0
    /\ \E r \in interaction_cache :
           /\ DDRowKey(r) = cache_call.key
           /\ r.cached_at = now
           /\ r.access_count = 2
\* What a request returns when its inference call failed: the dict of
\* _call_llm's except branch, marked from_cache = False.
ErrorCounseling == FreshCounseling(counseling_call_llm([raises |-> TRUE]))

\* The live records of key k that hold the error payload.
StoredError(k) ==
    {r \in CounselingLive(k) : JsonLoadsCounseling(r.full_result) = ErrorCounseling}

\* C35 as stated: a request whose inference call failed leaves the error
\* payload in the counseling cache, and a request that finds a live record
\* holding the error payload under its key is a cache hit that returns it
\* without an inference call.
C35_ErrorPayloadCached ==
    [][CounselingCallStep =>
           /\ (counseling_call'.llm_called
                   /\ counseling_call'.returned = ErrorCounseling) =>
                  StoredNow(counseling_call'.key)
           /\ StoredError(counseling_call'.key) # {} =>
                  /\ counseling_call'.hit
                  /\ ~counseling_call'.llm_called
                  /\ counseling_call'.returned = ErrorCounseling]_vars

\* C35 with the two swallowed failures named: the error payload is in the
\* cache after a failed inference call whose save succeeded, and a request
\* whose cache read succeeds and finds it live is a hit that returns it
\* without an inference call.
C35_ErrorPayloadCachedWhenStored ==
    [][CounselingCallStep =>
           /\ (counseling_call'.llm_called /\ counseling_call'.saved
                   /\ counseling_call'.returned = ErrorCounseling) =>
                  StoredNow(counseling_call'.key)
           /\ (StoredError(counseling_call'.key) # {} /\ counseling_call'.read_ok) =>
                  /\ counseling_call'.hit
                  /\ ~counseling_call'.llm_called
                  /\ counseling_call'.returned = ErrorCounseling]_vars

\* A request has been answered on day 29 with the error payload a failed
\* inference call left in the cache on day 0.
C35_Witness ==
    /\ counseling_call.hit
    /\ counseling_call.returned = ErrorCounseling
    /\ now = 29
    /\ \E r \in drug_counseling_cache :
           /\ r.cache_key = counseling_call.key
           /\ r.cached_at = 0
           /\ JsonLoadsCounseling(r.full_result) = ErrorCounseling
\* The threads whose store got its connection.
Storing == {t \in Threads : store_threads[t].conn # None}

\* C36: whatever the interleaving of the stores of one key by threads that
\* each use their own connection, no call raises to its caller, the table
\* never holds two records of the key, and once every call has returned
\* the table holds exactly one record of the key, whose payload is the one
\* some call stored.
C36_ConcurrentStores ==
    /\ \A t \in Threads : ~store_threads[t].raised
    /\ Cardinality(DDRows(RaceKey)) <= 1
    /\ (/\ Storing = Threads
        /\ \A t \in Threads : store_threads[t].pc = "done"
        /\ \A t, u \in Threads :
               t # u => store_threads[t].conn # store_threads[u].conn) =>
           /\ Cardinality(DDRows(RaceKey)) = 1
           /\ \A r \in DDRows(RaceKey) :
                  \E t \in Threads : JsonLoads(r.full_result) = store_threads[t].result

\* Two stores of different payloads have raced on an empty table: both
\* MERGEs found no record, one INSERT ran and the other failed on the
\* constraint, and both calls have returned.
C36_Witness ==
    /\ \A t \in Threads : store_threads[t].pc = "done" /\ ~store_threads[t].matched
    /\ Storing = Threads
    /\ store_threads[1].conn # store_threads[2].conn
    /\ store_threads[1].result # store_threads[2].result
    /\ \E t \in Threads : store_threads[t].error = "duplicate key"
    /\ Cardinality(DDRows(RaceKey)) = 1
\* _run has ended for name n, by a return or by an exception.
RunEnded(n) == agent_run[n].pc \in {"returned", "raised"}

\* C37 as stated: once _run has ended, the agent it created has been
\* deleted by exactly one delete_agent call and no longer exists.
C37_AgentCleanup ==
    \A n \in AgentNames :
        (RunEnded(n) /\ agent_run[n].created = 1) =>
            agent_run[n].delete_calls = 1 /\ ~agent_run[n].exists

\* C37 for what _run can do: delete_agent is called exactly once for the
\* agent _run created, after the try block and before _run ends, however
\* the try block ended, and never for an agent that was not created; the
\* agent is gone once _run has returned, and remains only when _run ended
\* with an exception.
C37_AgentCleanupAttempted ==
    \A n \in AgentNames :
        /\ RunEnded(n) => agent_run[n].delete_calls = agent_run[n].created
        /\ ~RunEnded(n) => agent_run[n].delete_calls = 0
        /\ agent_run[n].pc = "returned" => ~agent_run[n].exists
        /\ (RunEnded(n) /\ agent_run[n].exists) => agent_run[n].pending.raises

\* A run whose try block raised has ended with its agent deleted, and
\* another has returned its answer with its agent deleted.
C37_Witness ==
    \E n, m \in AgentNames :
        /\ agent_run[n].pc = "raised" /\ agent_run[n].created = 1
        /\ agent_run[n].delete_calls = 1 /\ ~agent_run[n].exists
        /\ agent_run[m].pc = "returned" /\ agent_run[m].pending.value = "answer"
        /\ agent_run[m].delete_calls = 1 /\ ~agent_run[m].exists
\* This step is a call of the tool save_cache.
SaveCacheStep ==
    /\ tool_call'.tool = "save_cache"
    /\ \/ tool_call' # tool_call
       \/ interaction_cache' # interaction_cache
       \/ disease_cache' # disease_cache
       \/ food_cache' # food_cache

\* After the step the table of the cache type holds a record of the key
\* that was written at the time of the step.
RecordWritten(cache_type, drug1, drug2) ==
    CASE cache_type = "drug_drug" ->
             /\ drug2 # <<>>
             /\ \E r \in interaction_cache' :
                    DDRowKey(r) = DDKey(drug1, drug2) /\ r.cached_at = now
      [] cache_type = "drug_disease" ->
             /\ drug2 # <<>>
             /\ \E r \in disease_cache' :
                    r.drug = DisKey(drug1, drug2)[1]
                        /\ r.disease = DisKey(drug1, drug2)[2] /\ r.cached_at = now
      [] cache_type = "food" ->
             \E r \in food_cache' : r.drug = FoodKey(drug1) /\ r.cached_at = now
      [] OTHER -> FALSE

\* C38: a call of save_cache that returns saved = true has written or
\* overwritten a record of the given key in the table of the given type.
C38_SavedMeansWritten ==
    [][(SaveCacheStep /\ tool_call'.returned.saved) =>
           RecordWritten(tool_call'.origin, tool_call'.identifier[1],
                         tool_call'.identifier[2])]_vars
====
